---------------------------- MODULE Spec2Model ----------------------------
(***************************************************************************)
(* Stellar Studio factory contracts: MasterFactory, TokenFactory,          *)
(* NFTFactory and GovernanceFactory (Soroban).                             *)
(*                                                                         *)
(* One contract instance is modelled at a time: `factory` names which of   *)
(* the four contracts the state belongs to (chosen at construction, never  *)
(* changed).  The storage keys of the contract are the variables; every    *)
(* entry point is a pure operator from (storage, arguments) to an outcome  *)
(* (new storage, error, events), and one action applies it.  A call that   *)
(* panics is rolled back by the host: the storage after it is the storage  *)
(* at entry.                                                               *)
(***************************************************************************)
EXTENDS Integers, Sequences, FiniteSets, TLC

(***************************************************************************)
(* Bounds of the model.                                                    *)
(***************************************************************************)
MaxSalt  == 2      \* salts are 1..MaxSalt
MaxBlock == 2      \* ledger sequence numbers are 1..MaxBlock
MaxWasm  == 1      \* wasm hashes are 1..MaxWasm

Address  == {"A", "B", "C"}
Salt     == 1..MaxSalt
WasmHash == 1..MaxWasm
Block    == 1..MaxBlock

Factories      == {"MasterFactory", "TokenFactory", "NFTFactory", "GovernanceFactory"}
FactoryType    == {"Token", "NFT", "Governance"}
TokenType      == {"Allowlist", "Blocklist", "Capped", "Pausable", "Vault"}
NFTType        == {"Enumerable", "Royalties", "AccessControl"}
GovernanceType == {"MerkleVoting", "Multisig"}

(***************************************************************************)
(* Option<T>: None is the empty tuple, Some(x) the one-element tuple.      *)
(***************************************************************************)
None       == << >>
Some(x)    == << x >>
is_some(o) == o # None
is_none(o) == o = None
unwrap(o)  == o[1]

(***************************************************************************)
(* u32 values are two base-65536 limbs <<hi, lo>>, so that u32::MAX is a   *)
(* value of the model.                                                     *)
(***************************************************************************)
U32(n)       == << n \div 65536, n % 65536 >>
U32_MAX      == << 65535, 65535 >>
U32_lt(x, y) == x[1] < y[1] \/ (x[1] = y[1] /\ x[2] < y[2])
U32_ge(x, y) == ~U32_lt(x, y)
U32_gt(x, y) == U32_lt(y, x)

\* faulty variant: u32::wrapping_add(x, 1)
checked_add_1_wrapping(x) ==
    IF x = U32_MAX THEN Some(U32(0))
    ELSE IF x[2] = 65535 THEN Some(<< x[1] + 1, 0 >>)
    ELSE Some(<< x[1], x[2] + 1 >>)

\* faulty variant: the sum is the old value
checked_add_1_stuck(x) == Some(x)

\* u32::checked_add(x, 1): None on overflow
checked_add_1(x) ==
    IF x = U32_MAX THEN None
    ELSE IF x[2] = 65535 THEN Some(<< x[1] + 1, 0 >>)
    ELSE Some(<< x[1], x[2] + 1 >>)

VARIABLES
    factory,              \* which contract this instance is
    admin,                \* DataKey::Admin
    pending_admin,        \* DataKey::PendingAdmin (Option<Address>)
    paused,               \* DataKey::Paused
    wasm,                 \* DataKey::<Kind>Wasm, one Option<hash> per kind
    slots,                \* MasterFactory: DataKey::TokenFactory / NFTFactory / GovernanceFactory
    registry,             \* DataKey::DeployedFactories / DeployedTokens / DeployedNFTs / DeployedGovernance
    count,                \* DataKey::TokenCount / NFTCount / GovernanceCount (u32)
    used_salts,           \* MasterFactory: the salts s with DataKey::UsedSalts(s) present (persistent)
    deployments_in_block, \* MasterFactory: DataKey::DeploymentsInBlock(b) (temporary), a partial map
    deploying,            \* MasterFactory: DataKey::Deploying
    instances,            \* host: the salts whose derived contract address already exists
    ledger,               \* host: the current ledger sequence number
    last,                 \* result of the last invocation: "ok" or its error
    request               \* the config handed to validate_config, None outside validation

vars == << factory, admin, pending_admin, paused, wasm, slots, registry, count,
           used_salts, deployments_in_block, deploying, instances, ledger, last,
           request >>

\* The contract's storage (and the host's contract table) as one value.
Storage ==
    [ admin |-> admin, pending_admin |-> pending_admin, paused |-> paused,
      wasm |-> wasm, slots |-> slots, registry |-> registry, count |-> count,
      used_salts |-> used_salts, deployments_in_block |-> deployments_in_block,
      deploying |-> deploying, instances |-> instances ]

(***************************************************************************)
(* Host semantics.                                                         *)
(***************************************************************************)
\* A successful return: the storage as written, and the events published.
Return(cur, events, ret) ==
    [ st |-> cur, err |-> "ok", events |-> events, ret |-> ret ]

\* faulty variant: a failed invocation keeps the writes made before the failure
Panic_keeps_writes(entry, cur, err) ==
    [ st |-> cur, err |-> err, events |-> << >>, ret |-> None ]

\* panic_with_error!(e, err) (or a host error): the invocation fails, the host
\* discards every write and event of the invocation; `entry` is the storage at
\* entry, `cur` the storage as written so far.
Panic(entry, cur, err) ==
    [ st |-> entry, err |-> err, events |-> << >>, ret |-> None ]

\* The address the deployer derives from (this contract, salt).
contract_address(f, salt) == << f, salt >>

\* e.ledger().timestamp(), abstracted to the ledger it is read in.
timestamp(seq) == seq

\* faulty variant: a failing constructor does not fail deploy_v2
can_deploy_v2_lenient(st, salt, wasm_hash, inst_ok) ==
    wasm_hash \in WasmHash /\ salt \notin st.instances

\* deploy_v2(wasm_hash, args) succeeds iff the wasm is installed and its
\* constructor runs (inst_ok) and no contract exists yet at the derived address.
can_deploy_v2(st, salt, wasm_hash, inst_ok) ==
    wasm_hash \in WasmHash /\ inst_ok /\ salt \notin st.instances

(***************************************************************************)
(* Admin / access controller.  The six entry points and require_admin are  *)
(* the same code in the four contracts; each contract's entry point below  *)
(* names its own copy.                                                     *)
(***************************************************************************)
\* faulty variant: the admin check accepts any address
require_admin_any(st, address) == "ok"

\* require_admin: "ok", or the error it panics with
require_admin(st, address) ==
    IF is_none(st.admin) THEN "AdminNotSet"
    ELSE IF unwrap(st.admin) # address THEN "NotAdmin"
    ELSE "ok"

\* get_admin
get_admin(st) ==
    IF is_none(st.admin) THEN Panic(st, st, "AdminNotSet")
    ELSE Return(st, << >>, st.admin)

\* get_pending_admin
get_pending_admin(st) == st.pending_admin

\* faulty variant: the deployment paths do not read the pause flag
is_paused_never(st) == FALSE

\* instance().get(Paused).unwrap_or(false), as the deployment paths read it
is_paused(st) == st.paused

\* faulty variant: pausing a paused contract returns without an event
pause_silent(st, a, auth) ==
    IF ~auth THEN Panic(st, st, "AuthError")
    ELSE IF require_admin(st, a) # "ok" THEN Panic(st, st, require_admin(st, a))
    ELSE IF st.paused THEN Return(st, << >>, None)
    ELSE Return([st EXCEPT !.paused = TRUE],
                << [type |-> "ContractPausedEvent", admin |-> a] >>, None)

\* faulty variant: pausing drops the pending transfer
pause_cancels(st, a, auth) ==
    IF ~auth THEN Panic(st, st, "AuthError")
    ELSE IF require_admin(st, a) # "ok" THEN Panic(st, st, require_admin(st, a))
    ELSE Return([st EXCEPT !.paused = TRUE, !.pending_admin = None],
                << [type |-> "ContractPausedEvent", admin |-> a] >>, None)

\* pause(admin); auth: admin.require_auth() passes
pause(st, a, auth) ==
    IF ~auth THEN Panic(st, st, "AuthError")
    ELSE IF require_admin(st, a) # "ok" THEN Panic(st, st, require_admin(st, a))
    ELSE Return([st EXCEPT !.paused = TRUE],
                << [type |-> "ContractPausedEvent", admin |-> a] >>, None)

\* unpause(admin)
unpause(st, a, auth) ==
    IF ~auth THEN Panic(st, st, "AuthError")
    ELSE IF require_admin(st, a) # "ok" THEN Panic(st, st, require_admin(st, a))
    ELSE Return([st EXCEPT !.paused = FALSE],
                << [type |-> "ContractUnpausedEvent", admin |-> a] >>, None)

\* faulty variant: the upgrade does not pause
upgrade_unpaused(st, auth, new_wasm_hash, wasm_ok) ==
    IF is_none(st.admin) THEN Panic(st, st, "AdminNotSet")
    ELSE IF ~auth THEN Panic(st, st, "AuthError")
    ELSE IF ~wasm_ok THEN Panic(st, st, "HostError")
    ELSE Return(st, << [type |-> "ContractUpgradedEvent", new_wasm_hash |-> new_wasm_hash] >>,
                None)

\* faulty variant: the upgrade starts the new code with no salt used
upgrade_forgets_salts(st, auth, new_wasm_hash, wasm_ok) ==
    IF is_none(st.admin) THEN Panic(st, st, "AdminNotSet")
    ELSE IF ~auth THEN Panic(st, st, "AuthError")
    ELSE LET s1 == [st EXCEPT !.paused = TRUE, !.used_salts = {}]
             ev == [type |-> "ContractUpgradedEvent", new_wasm_hash |-> new_wasm_hash]
         IN  IF ~wasm_ok THEN Panic(st, s1, "HostError")
             ELSE Return(s1, << ev >>, None)

\* faulty variant: a refused wasm update keeps the pause and the event
upgrade_halfway(st, auth, new_wasm_hash, wasm_ok) ==
    IF is_none(st.admin) THEN Panic(st, st, "AdminNotSet")
    ELSE IF ~auth THEN Panic(st, st, "AuthError")
    ELSE LET s1 == [st EXCEPT !.paused = TRUE]
             ev == [type |-> "ContractUpgradedEvent", new_wasm_hash |-> new_wasm_hash]
         IN  [ st |-> s1, err |-> IF wasm_ok THEN "ok" ELSE "HostError",
               events |-> << ev >>, ret |-> None ]

\* upgrade(new_wasm_hash); auth: the stored admin's require_auth() passes;
\* wasm_ok: update_current_contract_wasm finds the wasm installed
upgrade(st, auth, new_wasm_hash, wasm_ok) ==
    IF is_none(st.admin) THEN Panic(st, st, "AdminNotSet")
    ELSE IF ~auth THEN Panic(st, st, "AuthError")
    ELSE LET s1 == [st EXCEPT !.paused = TRUE]
             ev == [type |-> "ContractUpgradedEvent", new_wasm_hash |-> new_wasm_hash]
         IN  IF ~wasm_ok THEN Panic(st, s1, "HostError")
             ELSE Return(s1, << ev >>, None)

\* faulty variant: a pending transfer is not replaced
initiate_admin_transfer_first_wins(st, current_admin, auth, new_admin) ==
    IF ~auth THEN Panic(st, st, "AuthError")
    ELSE IF require_admin(st, current_admin) # "ok"
         THEN Panic(st, st, require_admin(st, current_admin))
    ELSE Return(IF is_some(st.pending_admin) THEN st
                ELSE [st EXCEPT !.pending_admin = Some(new_admin)],
                << [type |-> "AdminTransferInitiatedEvent", new_admin |-> new_admin] >>, None)

\* faulty variant: the transfer takes effect at once
initiate_admin_transfer_at_once(st, current_admin, auth, new_admin) ==
    IF ~auth THEN Panic(st, st, "AuthError")
    ELSE IF require_admin(st, current_admin) # "ok"
         THEN Panic(st, st, require_admin(st, current_admin))
    ELSE Return([st EXCEPT !.admin = Some(new_admin)],
                << [type |-> "AdminTransferInitiatedEvent", new_admin |-> new_admin] >>, None)

\* initiate_admin_transfer(current_admin, new_admin)
initiate_admin_transfer(st, current_admin, auth, new_admin) ==
    IF ~auth THEN Panic(st, st, "AuthError")
    ELSE IF require_admin(st, current_admin) # "ok"
         THEN Panic(st, st, require_admin(st, current_admin))
    ELSE Return([st EXCEPT !.pending_admin = Some(new_admin)],
                << [type |-> "AdminTransferInitiatedEvent", new_admin |-> new_admin] >>, None)

\* faulty variant: accept does not require a pending transfer
accept_admin_transfer_unchecked(st, new_admin, auth) ==
    IF ~auth THEN Panic(st, st, "AuthError")
    ELSE IF is_some(st.pending_admin) /\ unwrap(st.pending_admin) # new_admin
         THEN Panic(st, st, "NotPendingAdmin")
    ELSE Return([st EXCEPT !.admin = Some(new_admin), !.pending_admin = None],
                << [type |-> "AdminTransferredEvent", new_admin |-> new_admin] >>, None)

\* faulty variant: any address may accept a pending transfer
accept_admin_transfer_anyone(st, new_admin, auth) ==
    IF ~auth THEN Panic(st, st, "AuthError")
    ELSE IF is_none(st.pending_admin) THEN Panic(st, st, "NoPendingAdmin")
    ELSE Return([st EXCEPT !.admin = Some(new_admin), !.pending_admin = None],
                << [type |-> "AdminTransferredEvent", new_admin |-> new_admin] >>, None)

\* faulty variant: the pending admin is not cleared by accept
accept_admin_transfer_keeps_pending(st, new_admin, auth) ==
    IF ~auth THEN Panic(st, st, "AuthError")
    ELSE IF is_none(st.pending_admin) THEN Panic(st, st, "NoPendingAdmin")
    ELSE IF unwrap(st.pending_admin) # new_admin THEN Panic(st, st, "NotPendingAdmin")
    ELSE Return([st EXCEPT !.admin = Some(new_admin)],
                << [type |-> "AdminTransferredEvent", new_admin |-> new_admin] >>, None)

\* faulty variant: a transfer cannot be accepted while the factory is paused
accept_admin_transfer_unless_paused(st, new_admin, auth) ==
    IF ~auth THEN Panic(st, st, "AuthError")
    ELSE IF st.paused THEN Panic(st, st, "ContractPaused")
    ELSE IF is_none(st.pending_admin) THEN Panic(st, st, "NoPendingAdmin")
    ELSE IF unwrap(st.pending_admin) # new_admin THEN Panic(st, st, "NotPendingAdmin")
    ELSE LET s1 == [st EXCEPT !.admin = Some(new_admin)]
             s2 == [s1 EXCEPT !.pending_admin = None]
         IN  Return(s2, << [type |-> "AdminTransferredEvent", new_admin |-> new_admin] >>, None)

\* accept_admin_transfer(new_admin)
accept_admin_transfer(st, new_admin, auth) ==
    IF ~auth THEN Panic(st, st, "AuthError")
    ELSE IF is_none(st.pending_admin) THEN Panic(st, st, "NoPendingAdmin")
    ELSE IF unwrap(st.pending_admin) # new_admin THEN Panic(st, st, "NotPendingAdmin")
    ELSE LET s1 == [st EXCEPT !.admin = Some(new_admin)]
             s2 == [s1 EXCEPT !.pending_admin = None]
         IN  Return(s2, << [type |-> "AdminTransferredEvent", new_admin |-> new_admin] >>, None)

\* faulty variant: cancel fails when no transfer is pending
cancel_admin_transfer_strict(st, current_admin, auth) ==
    IF ~auth THEN Panic(st, st, "AuthError")
    ELSE IF require_admin(st, current_admin) # "ok"
         THEN Panic(st, st, require_admin(st, current_admin))
    ELSE IF is_none(st.pending_admin) THEN Panic(st, st, "NoPendingAdmin")
    ELSE Return([st EXCEPT !.pending_admin = None],
                << [type |-> "AdminTransferCancelledEvent", admin |-> current_admin] >>, None)

\* faulty variant: cancel leaves the pending admin in place
cancel_admin_transfer_noop(st, current_admin, auth) ==
    IF ~auth THEN Panic(st, st, "AuthError")
    ELSE IF require_admin(st, current_admin) # "ok"
         THEN Panic(st, st, require_admin(st, current_admin))
    ELSE Return(st, << [type |-> "AdminTransferCancelledEvent", admin |-> current_admin] >>, None)

\* cancel_admin_transfer(current_admin)
cancel_admin_transfer(st, current_admin, auth) ==
    IF ~auth THEN Panic(st, st, "AuthError")
    ELSE IF require_admin(st, current_admin) # "ok"
         THEN Panic(st, st, require_admin(st, current_admin))
    ELSE Return([st EXCEPT !.pending_admin = None],
                << [type |-> "AdminTransferCancelledEvent", admin |-> current_admin] >>, None)

(***************************************************************************)
(* MasterFactory                                                           *)
(***************************************************************************)
RateLimit == 10     \* max deployments per block

\* faulty variant: the block's counter always reads 0
deployments_count_zero(st, seq) == U32(0)

\* the value read for DataKey::DeploymentsInBlock(seq), unwrap_or(0)
deployments_count(st, seq) ==
    IF seq \in DOMAIN st.deployments_in_block
    THEN st.deployments_in_block[seq] ELSE U32(0)

\* faulty variant: no salt counts as used
UsedSalts_has_never(st, salt) == FALSE

\* persistent().has(UsedSalts(salt))
UsedSalts_has(st, salt) == salt \in st.used_salts

\* faulty variant: the slot of the type is not looked at before deploying
MasterFactory_deploy_overwrites(st, seq, ftype, deployer, auth, wasm_hash, salt, inst_ok) ==
    IF ~auth THEN Panic(st, st, "AuthError")
    ELSE IF require_admin(st, deployer) # "ok" THEN Panic(st, st, require_admin(st, deployer))
    ELSE IF is_paused(st) THEN Panic(st, st, "ContractPaused")
    ELSE IF st.deploying THEN Panic(st, st, "Reentrancy")
    ELSE
      LET s1  == [st EXCEPT !.deploying = TRUE]
          off == [s1 EXCEPT !.deploying = FALSE]
          dc  == deployments_count(s1, seq)
      IN
      IF U32_ge(dc, U32(RateLimit)) THEN Panic(st, off, "RateLimitExceeded")
      ELSE IF UsedSalts_has(s1, salt) THEN Panic(st, off, "DuplicateSalt")
      ELSE IF ~can_deploy_v2(s1, salt, wasm_hash, inst_ok) THEN Panic(st, s1, "HostError")
      ELSE
        LET factory_address == contract_address("MasterFactory", salt)
            s2 == [s1 EXCEPT !.instances = @ \cup {salt}]
            s3 == [s2 EXCEPT !.used_salts = @ \cup {salt}]
            nc == checked_add_1(dc)
        IN
        IF is_none(nc) THEN Panic(st, [s3 EXCEPT !.deploying = FALSE], "CounterOverflow")
        ELSE
          LET s4 == [s3 EXCEPT !.deployments_in_block =
                        [b \in (DOMAIN @) \cup {seq} |-> IF b = seq THEN unwrap(nc) ELSE @[b]]]
              s5 == [s4 EXCEPT !.slots[ftype] = Some(factory_address)]
              factory_info == [address |-> factory_address, factory_type |-> ftype,
                               timestamp |-> timestamp(seq)]
              s6 == [s5 EXCEPT !.registry = Append(@, factory_info)]
              ev == [type |-> "FactoryDeployedEvent", factory_address |-> factory_address,
                     factory_type |-> ftype, deployer |-> deployer,
                     timestamp |-> timestamp(seq)]
              s7 == [s6 EXCEPT !.deploying = FALSE]
          IN  Return(s7, << ev >>, Some(factory_address))

\* faulty variant: the Deploying flag is written but never read
MasterFactory_deploy_unguarded(st, seq, ftype, deployer, auth, wasm_hash, salt, inst_ok) ==
    IF ~auth THEN Panic(st, st, "AuthError")
    ELSE IF require_admin(st, deployer) # "ok" THEN Panic(st, st, require_admin(st, deployer))
    ELSE IF is_paused(st) THEN Panic(st, st, "ContractPaused")
    ELSE
      LET s1  == [st EXCEPT !.deploying = TRUE]
          off == [s1 EXCEPT !.deploying = FALSE]
          dc  == deployments_count(s1, seq)
      IN
      IF U32_ge(dc, U32(RateLimit)) THEN Panic(st, off, "RateLimitExceeded")
      ELSE IF UsedSalts_has(s1, salt) THEN Panic(st, off, "DuplicateSalt")
      ELSE IF is_some(s1.slots[ftype]) THEN Panic(st, off, "FactoryAlreadyDeployed")
      ELSE IF ~can_deploy_v2(s1, salt, wasm_hash, inst_ok) THEN Panic(st, s1, "HostError")
      ELSE
        LET factory_address == contract_address("MasterFactory", salt)
            s2 == [s1 EXCEPT !.instances = @ \cup {salt}]
            s3 == [s2 EXCEPT !.used_salts = @ \cup {salt}]
            nc == checked_add_1(dc)
        IN
        IF is_none(nc) THEN Panic(st, [s3 EXCEPT !.deploying = FALSE], "CounterOverflow")
        ELSE
          LET s4 == [s3 EXCEPT !.deployments_in_block =
                        [b \in (DOMAIN @) \cup {seq} |-> IF b = seq THEN unwrap(nc) ELSE @[b]]]
              s5 == [s4 EXCEPT !.slots[ftype] = Some(factory_address)]
              factory_info == [address |-> factory_address, factory_type |-> ftype,
                               timestamp |-> timestamp(seq)]
              s6 == [s5 EXCEPT !.registry = Append(@, factory_info)]
              ev == [type |-> "FactoryDeployedEvent", factory_address |-> factory_address,
                     factory_type |-> ftype, deployer |-> deployer,
                     timestamp |-> timestamp(seq)]
              s7 == [s6 EXCEPT !.deploying = FALSE]
          IN  Return(s7, << ev >>, Some(factory_address))

\* faulty variant: the slot is checked before the salt
MasterFactory_deploy_slot_first(st, seq, ftype, deployer, auth, wasm_hash, salt, inst_ok) ==
    IF ~auth THEN Panic(st, st, "AuthError")
    ELSE IF require_admin(st, deployer) # "ok" THEN Panic(st, st, require_admin(st, deployer))
    ELSE IF is_paused(st) THEN Panic(st, st, "ContractPaused")
    ELSE IF st.deploying THEN Panic(st, st, "Reentrancy")
    ELSE
      LET s1  == [st EXCEPT !.deploying = TRUE]
          off == [s1 EXCEPT !.deploying = FALSE]
          dc  == deployments_count(s1, seq)
      IN
      IF U32_ge(dc, U32(RateLimit)) THEN Panic(st, off, "RateLimitExceeded")
      ELSE IF is_some(s1.slots[ftype]) THEN Panic(st, off, "FactoryAlreadyDeployed")
      ELSE IF UsedSalts_has(s1, salt) THEN Panic(st, off, "DuplicateSalt")
      ELSE IF ~can_deploy_v2(s1, salt, wasm_hash, inst_ok) THEN Panic(st, s1, "HostError")
      ELSE
        LET factory_address == contract_address("MasterFactory", salt)
            s2 == [s1 EXCEPT !.instances = @ \cup {salt}]
            s3 == [s2 EXCEPT !.used_salts = @ \cup {salt}]
            nc == checked_add_1(dc)
        IN
        IF is_none(nc) THEN Panic(st, [s3 EXCEPT !.deploying = FALSE], "CounterOverflow")
        ELSE
          LET s4 == [s3 EXCEPT !.deployments_in_block =
                        [b \in (DOMAIN @) \cup {seq} |-> IF b = seq THEN unwrap(nc) ELSE @[b]]]
              s5 == [s4 EXCEPT !.slots[ftype] = Some(factory_address)]
              factory_info == [address |-> factory_address, factory_type |-> ftype,
                               timestamp |-> timestamp(seq)]
              s6 == [s5 EXCEPT !.registry = Append(@, factory_info)]
              ev == [type |-> "FactoryDeployedEvent", factory_address |-> factory_address,
                     factory_type |-> ftype, deployer |-> deployer,
                     timestamp |-> timestamp(seq)]
              s7 == [s6 EXCEPT !.deploying = FALSE]
          IN  Return(s7, << ev >>, Some(factory_address))

\* The body shared by deploy_token_factory, deploy_nft_factory and
\* deploy_governance_factory (the three differ in the slot and type written).
MasterFactory_deploy(st, seq, ftype, deployer, auth, wasm_hash, salt, inst_ok) ==
    IF ~auth THEN Panic(st, st, "AuthError")
    ELSE IF require_admin(st, deployer) # "ok" THEN Panic(st, st, require_admin(st, deployer))
    ELSE IF is_paused(st) THEN Panic(st, st, "ContractPaused")
    ELSE IF st.deploying THEN Panic(st, st, "Reentrancy")
    ELSE
      LET s1  == [st EXCEPT !.deploying = TRUE]
          off == [s1 EXCEPT !.deploying = FALSE]
          dc  == deployments_count(s1, seq)
      IN
      IF U32_ge(dc, U32(RateLimit)) THEN Panic(st, off, "RateLimitExceeded")
      ELSE IF UsedSalts_has(s1, salt) THEN Panic(st, off, "DuplicateSalt")
      ELSE IF is_some(s1.slots[ftype]) THEN Panic(st, off, "FactoryAlreadyDeployed")
      ELSE IF ~can_deploy_v2(s1, salt, wasm_hash, inst_ok) THEN Panic(st, s1, "HostError")
      ELSE
        LET factory_address == contract_address("MasterFactory", salt)
            s2 == [s1 EXCEPT !.instances = @ \cup {salt}]
            s3 == [s2 EXCEPT !.used_salts = @ \cup {salt}]
            nc == checked_add_1(dc)
        IN
        IF is_none(nc) THEN Panic(st, [s3 EXCEPT !.deploying = FALSE], "CounterOverflow")
        ELSE
          LET s4 == [s3 EXCEPT !.deployments_in_block =
                        [b \in (DOMAIN @) \cup {seq} |-> IF b = seq THEN unwrap(nc) ELSE @[b]]]
              s5 == [s4 EXCEPT !.slots[ftype] = Some(factory_address)]
              factory_info == [address |-> factory_address, factory_type |-> ftype,
                               timestamp |-> timestamp(seq)]
              s6 == [s5 EXCEPT !.registry = Append(@, factory_info)]
              ev == [type |-> "FactoryDeployedEvent", factory_address |-> factory_address,
                     factory_type |-> ftype, deployer |-> deployer,
                     timestamp |-> timestamp(seq)]
              s7 == [s6 EXCEPT !.deploying = FALSE]
          IN  Return(s7, << ev >>, Some(factory_address))

\* deploy_token_factory(deployer, wasm_hash, salt)
MasterFactory_deploy_token_factory(st, seq, deployer, auth, wasm_hash, salt, inst_ok) ==
    MasterFactory_deploy(st, seq, "Token", deployer, auth, wasm_hash, salt, inst_ok)

\* deploy_nft_factory(deployer, wasm_hash, salt)
MasterFactory_deploy_nft_factory(st, seq, deployer, auth, wasm_hash, salt, inst_ok) ==
    MasterFactory_deploy(st, seq, "NFT", deployer, auth, wasm_hash, salt, inst_ok)

\* deploy_governance_factory(deployer, wasm_hash, salt)
MasterFactory_deploy_governance_factory(st, seq, deployer, auth, wasm_hash, salt, inst_ok) ==
    MasterFactory_deploy(st, seq, "Governance", deployer, auth, wasm_hash, salt, inst_ok)

\* faulty variant: get_nft_factory reads the TokenFactory's slot
MasterFactory_get_nft_factory_token_slot(st) == st.slots["Token"]

MasterFactory_get_token_factory(st)      == st.slots["Token"]
MasterFactory_get_nft_factory(st)        == st.slots["NFT"]
MasterFactory_get_governance_factory(st) == st.slots["Governance"]
MasterFactory_get_deployed_factories(st) == st.registry

MasterFactory_pause(st, a, auth)   == pause(st, a, auth)
MasterFactory_unpause(st, a, auth) == unpause(st, a, auth)
MasterFactory_upgrade(st, auth, new_wasm_hash, wasm_ok) == upgrade(st, auth, new_wasm_hash, wasm_ok)
MasterFactory_initiate_admin_transfer(st, current_admin, auth, new_admin) ==
    initiate_admin_transfer(st, current_admin, auth, new_admin)
MasterFactory_accept_admin_transfer(st, new_admin, auth) ==
    accept_admin_transfer(st, new_admin, auth)
MasterFactory_cancel_admin_transfer(st, current_admin, auth) ==
    cancel_admin_transfer(st, current_admin, auth)

\* MasterFactory::__constructor(admin)
MasterFactory_constructor(a) ==
    [ admin |-> Some(a), pending_admin |-> None, paused |-> FALSE,
      wasm |-> << >>, slots |-> [t \in FactoryType |-> None], registry |-> << >>,
      count |-> U32(0), used_salts |-> {}, deployments_in_block |-> << >>,
      deploying |-> FALSE, instances |-> {} ]

(***************************************************************************)
(* i128 values: a sign and a magnitude of eight base-65536 limbs, most     *)
(* significant first, so that i128::MAX and i128::MAX / 2 are values of    *)
(* the model.  I128(n) is the value of a small integer n.                  *)
(***************************************************************************)
I128(n) ==
    [ neg |-> n < 0,
      mag |-> << 0, 0, 0, 0, 0, 0,
                 (IF n < 0 THEN -n ELSE n) \div 65536,
                 (IF n < 0 THEN -n ELSE n) % 65536 >> ]

I128_MAX == [ neg |-> FALSE,
              mag |-> << 32767, 65535, 65535, 65535, 65535, 65535, 65535, 65535 >> ]

RECURSIVE mag_lt(_, _, _)
mag_lt(x, y, i) ==
    IF i > Len(x) THEN FALSE
    ELSE IF x[i] # y[i] THEN x[i] < y[i]
    ELSE mag_lt(x, y, i + 1)

\* x < y on i128
I128_lt(x, y) ==
    IF x.neg /\ ~y.neg THEN TRUE
    ELSE IF ~x.neg /\ y.neg THEN FALSE
    ELSE IF x.neg THEN mag_lt(y.mag, x.mag, 1)
    ELSE mag_lt(x.mag, y.mag, 1)

I128_gt(x, y) == I128_lt(y, x)

RECURSIVE mag_half(_, _, _)
mag_half(x, i, carry) ==
    IF i > Len(x) THEN << >>
    ELSE << (carry * 65536 + x[i]) \div 2 >> \o mag_half(x, i + 1, x[i] % 2)

\* x / 2 for x >= 0
I128_half(x) == [ neg |-> FALSE, mag |-> mag_half(x.mag, 1, 0) ]

\* faulty variant: a matching record goes to the front of the result
RECURSIVE push_matching_front(_, _, _, _, _)
push_matching_front(all, i, field, value, filtered) ==
    IF i > Len(all) THEN filtered
    ELSE push_matching_front(all, i + 1, field, value,
                             IF all[i][field] = value THEN << all[i] >> \o filtered
                             ELSE filtered)

\* the loop of the filtered queries: for item in all.iter() { if item.field
\* == value { filtered.push_back(item) } }, from the i-th record on
RECURSIVE push_matching(_, _, _, _, _)
push_matching(all, i, field, value, filtered) ==
    IF i > Len(all) THEN filtered
    ELSE push_matching(all, i + 1, field, value,
                       IF all[i][field] = value THEN Append(filtered, all[i])
                       ELSE filtered)

(***************************************************************************)
(* TokenFactory                                                            *)
(***************************************************************************)
\* the contract errors of TokenFactory and their codes
TokenFactoryError ==
    [ NotAdmin |-> 1, WasmNotSet |-> 2, InvalidTokenType |-> 3, InvalidConfig |-> 4,
      InvalidName |-> 5, InvalidSymbol |-> 6, InvalidDecimals |-> 7, NegativeSupply |-> 8,
      MissingCap |-> 9, CapTooLow |-> 10, UnexpectedCap |-> 11, AdminNotSet |-> 12,
      CounterOverflow |-> 13, InvalidCharacters |-> 14, SupplyTooLarge |-> 15,
      NoPendingAdmin |-> 16, NotPendingAdmin |-> 17, ContractPaused |-> 18 ]

MaxNameLen   == 30
MaxSymbolLen == 12
MaxDecimals  == 18

\* faulty variant: the bound is i128::MAX itself
MAX_SUPPLY_unhalved == I128_MAX

\* const MAX_SUPPLY: i128 = i128::MAX / 2
MAX_SUPPLY == I128_half(I128_MAX)

\* faulty variant: a type without a template gets a default one
TokenFactory_get_wasm_for_type_default(st, token_type) ==
    IF is_none(st.wasm[token_type]) THEN Some(1) ELSE st.wasm[token_type]

\* get_wasm_for_type: the stored Option; the caller panics with WasmNotSet on None
TokenFactory_get_wasm_for_type(st, token_type) == st.wasm[token_type]

\* faulty variant: tab, LF and CR are refused like the other control bytes
TokenFactory_validate_string_chars_strict(s) ==
    \A i \in 1..Len(s) : s[i] >= 32

\* validate_string_chars: no NUL, no control byte except tab, LF, CR
\* (a string is the sequence of its bytes)
TokenFactory_validate_string_chars(s) ==
    \A i \in 1..Len(s) :
        ~(s[i] = 0 \/ (s[i] < 32 /\ s[i] # 9 /\ s[i] # 10 /\ s[i] # 13))

\* validate_config: "ok", or the error of the first failing check
\* faulty variant: the cap is not compared with the initial supply
TokenFactory_validate_capped_unchecked(config) ==
    IF is_none(config.cap) THEN "MissingCap"
    ELSE IF I128_gt(unwrap(config.cap), MAX_SUPPLY) THEN "SupplyTooLarge"
    ELSE IF is_some(config.asset) \/ is_some(config.decimals_offset) THEN "InvalidConfig"
    ELSE "ok"

\* validate_config, the TokenType::Capped arm of its match
TokenFactory_validate_capped(config) ==
    IF is_none(config.cap) THEN "MissingCap"
    ELSE IF I128_gt(config.initial_supply, unwrap(config.cap)) THEN "CapTooLow"
    ELSE IF I128_gt(unwrap(config.cap), MAX_SUPPLY) THEN "SupplyTooLarge"
    ELSE IF is_some(config.asset) \/ is_some(config.decimals_offset) THEN "InvalidConfig"
    ELSE "ok"

\* faulty variant: a cap is tolerated on the types that have none
TokenFactory_validate_config_any_cap(config) ==
    IF Len(config.name) = 0 \/ Len(config.name) > MaxNameLen THEN "InvalidName"
    ELSE IF Len(config.symbol) = 0 \/ Len(config.symbol) > MaxSymbolLen THEN "InvalidSymbol"
    ELSE IF ~TokenFactory_validate_string_chars(config.name) THEN "InvalidName"
    ELSE IF ~TokenFactory_validate_string_chars(config.symbol) THEN "InvalidSymbol"
    ELSE IF config.decimals > MaxDecimals THEN "InvalidDecimals"
    ELSE IF I128_lt(config.initial_supply, I128(0)) THEN "NegativeSupply"
    ELSE IF I128_gt(config.initial_supply, MAX_SUPPLY) THEN "SupplyTooLarge"
    ELSE IF config.token_type = "Capped" THEN TokenFactory_validate_capped(config)
    ELSE IF config.token_type = "Vault" THEN
        IF is_none(config.asset) THEN "InvalidConfig"
        ELSE IF is_none(config.decimals_offset) THEN "InvalidConfig"
        ELSE "ok"
    ELSE
        IF is_some(config.asset) \/ is_some(config.decimals_offset) THEN "InvalidConfig"
        ELSE "ok"

TokenFactory_validate_config(config) ==
    IF Len(config.name) = 0 \/ Len(config.name) > MaxNameLen THEN "InvalidName"
    ELSE IF Len(config.symbol) = 0 \/ Len(config.symbol) > MaxSymbolLen THEN "InvalidSymbol"
    ELSE IF ~TokenFactory_validate_string_chars(config.name) THEN "InvalidName"
    ELSE IF ~TokenFactory_validate_string_chars(config.symbol) THEN "InvalidSymbol"
    ELSE IF config.decimals > MaxDecimals THEN "InvalidDecimals"
    ELSE IF I128_lt(config.initial_supply, I128(0)) THEN "NegativeSupply"
    ELSE IF I128_gt(config.initial_supply, MAX_SUPPLY) THEN "SupplyTooLarge"
    ELSE IF config.token_type = "Capped" THEN TokenFactory_validate_capped(config)
    ELSE IF config.token_type = "Vault" THEN
        IF is_none(config.asset) THEN "InvalidConfig"
        ELSE IF is_none(config.decimals_offset) THEN "InvalidConfig"
        ELSE IF is_some(config.cap) THEN "UnexpectedCap"
        ELSE "ok"
    ELSE
        IF is_some(config.cap) THEN "UnexpectedCap"
        ELSE IF is_some(config.asset) \/ is_some(config.decimals_offset) THEN "InvalidConfig"
        ELSE "ok"

\* the unwraps of the constructor arguments in deploy_token's match
TokenFactory_constructor_args(config) ==
    IF config.token_type = "Capped" THEN
        IF is_none(config.cap) THEN "MissingCap" ELSE "ok"
    ELSE IF config.token_type = "Vault" THEN
        IF is_none(config.asset) \/ is_none(config.decimals_offset) THEN "InvalidConfig" ELSE "ok"
    ELSE "ok"

\* faulty variant: TokenCount is read before the contract is instantiated
TokenFactory_deploy_token_count_read_first(st, seq, deployer, auth, config, inst_ok, ran) ==
    IF ~auth THEN Panic(st, st, "AuthError")
    ELSE IF is_paused(st) THEN Panic(st, st, "ContractPaused")
    ELSE IF is_none(TokenFactory_get_wasm_for_type(st, config.token_type))
         THEN Panic(st, st, "WasmNotSet")
    ELSE IF TokenFactory_validate_config(config) # "ok"
         THEN Panic(st, st, TokenFactory_validate_config(config))
    ELSE IF TokenFactory_constructor_args(config) # "ok"
         THEN Panic(st, st, TokenFactory_constructor_args(config))
    ELSE IF ~can_deploy_v2(st, config.salt,
                           unwrap(TokenFactory_get_wasm_for_type(st, config.token_type)), inst_ok)
         THEN Panic(st, st, "HostError")
    ELSE
      LET token_address == contract_address("TokenFactory", config.salt)
          s1 == [ran.st EXCEPT !.instances = @ \cup {config.salt}]
          new_count == checked_add_1(st.count)
      IN
      IF is_none(new_count) THEN Panic(st, s1, "CounterOverflow")
      ELSE
        LET token_info == [address |-> token_address, token_type |-> config.token_type,
                           admin |-> config.admin, timestamp |-> timestamp(seq),
                           name |-> Some(config.name)]
            s2 == [s1 EXCEPT !.registry = Append(@, token_info)]
            s3 == [s2 EXCEPT !.count = unwrap(new_count)]
            ev == [type |-> "TokenDeployedEvent", token_address |-> token_address,
                   token_type |-> config.token_type, deployer |-> deployer,
                   name |-> config.name, symbol |-> config.symbol,
                   timestamp |-> timestamp(seq)]
        IN  Return(s3, ran.events \o << ev >>, Some(token_address))

\* deploy_token(deployer, config); auth: deployer.require_auth() passes
\* ran: the outcome of the calls into this factory made by the code that
\* e.deployer().with_current_contract(salt).deploy_v2 runs (the constructor)
\* before it returns; the reads of the counter and of the list come after it.
TokenFactory_deploy_token_reentered(st, seq, deployer, auth, config, inst_ok, ran) ==
    IF ~auth THEN Panic(st, st, "AuthError")
    ELSE IF is_paused(st) THEN Panic(st, st, "ContractPaused")
    ELSE IF is_none(TokenFactory_get_wasm_for_type(st, config.token_type))
         THEN Panic(st, st, "WasmNotSet")
    ELSE IF TokenFactory_validate_config(config) # "ok"
         THEN Panic(st, st, TokenFactory_validate_config(config))
    ELSE IF TokenFactory_constructor_args(config) # "ok"
         THEN Panic(st, st, TokenFactory_constructor_args(config))
    ELSE IF ~can_deploy_v2(st, config.salt,
                           unwrap(TokenFactory_get_wasm_for_type(st, config.token_type)), inst_ok)
         THEN Panic(st, st, "HostError")
    ELSE
      LET token_address == contract_address("TokenFactory", config.salt)
          s1 == [ran.st EXCEPT !.instances = @ \cup {config.salt}]
          new_count == checked_add_1(s1.count)
      IN
      IF is_none(new_count) THEN Panic(st, s1, "CounterOverflow")
      ELSE
        LET token_info == [address |-> token_address, token_type |-> config.token_type,
                           admin |-> config.admin, timestamp |-> timestamp(seq),
                           name |-> Some(config.name)]
            s2 == [s1 EXCEPT !.registry = Append(@, token_info)]
            s3 == [s2 EXCEPT !.count = unwrap(new_count)]
            ev == [type |-> "TokenDeployedEvent", token_address |-> token_address,
                   token_type |-> config.token_type, deployer |-> deployer,
                   name |-> config.name, symbol |-> config.symbol,
                   timestamp |-> timestamp(seq)]
        IN  Return(s3, ran.events \o << ev >>, Some(token_address))

\* deploy_token when the constructor calls nothing in this factory
TokenFactory_deploy_token(st, seq, deployer, auth, config, inst_ok) ==
    TokenFactory_deploy_token_reentered(st, seq, deployer, auth, config, inst_ok,
                                        Return(st, << >>, None))

\* faulty variant: the hash is stored for every kind
TokenFactory_set_wasm_every_kind(st, kind, a, auth, wasm_hash) ==
    IF ~auth THEN Panic(st, st, "AuthError")
    ELSE IF require_admin(st, a) # "ok" THEN Panic(st, st, require_admin(st, a))
    ELSE Return([st EXCEPT !.wasm = [k \in TokenType |-> Some(wasm_hash)]],
                << [type |-> "WasmUpdatedEvent", token_type_name |-> kind,
                    wasm_hash |-> wasm_hash] >>, None)

\* the body of the five set_<kind>_wasm entry points
TokenFactory_set_wasm(st, kind, a, auth, wasm_hash) ==
    IF ~auth THEN Panic(st, st, "AuthError")
    ELSE IF require_admin(st, a) # "ok" THEN Panic(st, st, require_admin(st, a))
    ELSE Return([st EXCEPT !.wasm[kind] = Some(wasm_hash)],
                << [type |-> "WasmUpdatedEvent", token_type_name |-> kind,
                    wasm_hash |-> wasm_hash] >>, None)

TokenFactory_set_allowlist_wasm(st, a, auth, h) == TokenFactory_set_wasm(st, "Allowlist", a, auth, h)
TokenFactory_set_blocklist_wasm(st, a, auth, h) == TokenFactory_set_wasm(st, "Blocklist", a, auth, h)
TokenFactory_set_capped_wasm(st, a, auth, h)    == TokenFactory_set_wasm(st, "Capped", a, auth, h)
TokenFactory_set_pausable_wasm(st, a, auth, h)  == TokenFactory_set_wasm(st, "Pausable", a, auth, h)
TokenFactory_set_vault_wasm(st, a, auth, h)     == TokenFactory_set_wasm(st, "Vault", a, auth, h)

TokenFactory_get_deployed_tokens(st) == st.registry
TokenFactory_get_token_count(st)     == st.count

\* get_tokens_by_type(token_type), get_tokens_by_admin(admin)
TokenFactory_get_tokens_by_type(st, token_type) ==
    Return(st, << >>, push_matching(st.registry, 1, "token_type", token_type, << >>))

TokenFactory_get_tokens_by_admin(st, a) ==
    Return(st, << >>, push_matching(st.registry, 1, "admin", a, << >>))

TokenFactory_pause(st, a, auth)   == pause(st, a, auth)
TokenFactory_unpause(st, a, auth) == unpause(st, a, auth)
TokenFactory_upgrade(st, auth, new_wasm_hash, wasm_ok) == upgrade(st, auth, new_wasm_hash, wasm_ok)
TokenFactory_initiate_admin_transfer(st, current_admin, auth, new_admin) ==
    initiate_admin_transfer(st, current_admin, auth, new_admin)
TokenFactory_accept_admin_transfer(st, new_admin, auth) ==
    accept_admin_transfer(st, new_admin, auth)
TokenFactory_cancel_admin_transfer(st, current_admin, auth) ==
    cancel_admin_transfer(st, current_admin, auth)

\* TokenFactory::__constructor(admin)
TokenFactory_constructor(a) ==
    [ admin |-> Some(a), pending_admin |-> None, paused |-> FALSE,
      wasm |-> [k \in TokenType |-> None], slots |-> << >>, registry |-> << >>,
      count |-> U32(0), used_salts |-> {}, deployments_in_block |-> << >>,
      deploying |-> FALSE, instances |-> {} ]

(***************************************************************************)
(* NFTFactory                                                              *)
(***************************************************************************)
NFTFactory_get_wasm_for_type(st, nft_type) == st.wasm[nft_type]

\* validate_config: "ok", or the error of the first failing check
\* faulty variant: a Royalties config without admin or manager is reported
\* as InvalidNFTType
NFTFactory_validate_config_mislabelled(config) ==
    IF config.nft_type = "Royalties" /\ (is_none(config.admin) \/ is_none(config.manager))
    THEN "InvalidNFTType"
    ELSE IF config.nft_type = "AccessControl" /\ is_none(config.admin) THEN "InvalidConfig"
    ELSE IF config.nft_type = "Enumerable" /\ (is_some(config.admin) \/ is_some(config.manager))
    THEN "InvalidConfig"
    ELSE "ok"

NFTFactory_validate_config(config) ==
    IF config.nft_type = "Royalties" /\ (is_none(config.admin) \/ is_none(config.manager))
    THEN "InvalidConfig"
    ELSE IF config.nft_type = "AccessControl" /\ is_none(config.admin) THEN "InvalidConfig"
    ELSE IF config.nft_type = "Enumerable" /\ (is_some(config.admin) \/ is_some(config.manager))
    THEN "InvalidConfig"
    ELSE "ok"

\* the unwraps of the constructor arguments in deploy_nft's match
NFTFactory_constructor_args(config) ==
    IF config.nft_type = "Royalties" THEN
        IF is_none(config.admin) \/ is_none(config.manager) THEN "InvalidConfig" ELSE "ok"
    ELSE IF config.nft_type = "AccessControl" THEN
        IF is_none(config.admin) THEN "InvalidConfig" ELSE "ok"
    ELSE "ok"

unwrap_or(o, d) == IF is_none(o) THEN d ELSE unwrap(o)

\* deploy_nft(deployer, config)
\* ran: the outcome of the calls into this factory made by the code that
\* e.deployer().with_current_contract(salt).deploy_v2 runs (the constructor)
\* before it returns; the reads of the counter and of the list come after it.
NFTFactory_deploy_nft_reentered(st, seq, deployer, auth, config, inst_ok, ran) ==
    IF ~auth THEN Panic(st, st, "AuthError")
    ELSE IF is_paused(st) THEN Panic(st, st, "ContractPaused")
    ELSE IF is_none(NFTFactory_get_wasm_for_type(st, config.nft_type))
         THEN Panic(st, st, "WasmNotSet")
    ELSE IF NFTFactory_validate_config(config) # "ok"
         THEN Panic(st, st, NFTFactory_validate_config(config))
    ELSE IF NFTFactory_constructor_args(config) # "ok"
         THEN Panic(st, st, NFTFactory_constructor_args(config))
    ELSE IF ~can_deploy_v2(st, config.salt,
                           unwrap(NFTFactory_get_wasm_for_type(st, config.nft_type)), inst_ok)
         THEN Panic(st, st, "HostError")
    ELSE
      LET name == unwrap_or(config.name, "My Token")
          symbol == unwrap_or(config.symbol, "TKN")
          nft_address == contract_address("NFTFactory", config.salt)
          s1 == [ran.st EXCEPT !.instances = @ \cup {config.salt}]
          nft_info == [address |-> nft_address, nft_type |-> config.nft_type,
                       owner |-> config.owner, timestamp |-> timestamp(seq),
                       name |-> Some(name), symbol |-> Some(symbol),
                       base_uri |-> config.base_uri]
          s2 == [s1 EXCEPT !.registry = Append(@, nft_info)]
          new_count == checked_add_1(s2.count)
      IN
      IF is_none(new_count) THEN Panic(st, s2, "CounterOverflow")
      ELSE
        LET s3 == [s2 EXCEPT !.count = unwrap(new_count)]
            ev == [type |-> "NFTDeployedEvent", nft_address |-> nft_address,
                   nft_type |-> config.nft_type, deployer |-> deployer,
                   timestamp |-> timestamp(seq)]
        IN  Return(s3, ran.events \o << ev >>, Some(nft_address))

\* deploy_nft when the constructor calls nothing in this factory
NFTFactory_deploy_nft(st, seq, deployer, auth, config, inst_ok) ==
    NFTFactory_deploy_nft_reentered(st, seq, deployer, auth, config, inst_ok,
                                    Return(st, << >>, None))

\* the body of the three set_<kind>_wasm entry points
NFTFactory_set_wasm(st, kind, a, auth, wasm_hash) ==
    IF ~auth THEN Panic(st, st, "AuthError")
    ELSE IF require_admin(st, a) # "ok" THEN Panic(st, st, require_admin(st, a))
    ELSE Return([st EXCEPT !.wasm[kind] = Some(wasm_hash)],
                << [type |-> "WasmUpdatedEvent", nft_type_name |-> kind,
                    wasm_hash |-> wasm_hash] >>, None)

NFTFactory_set_enumerable_wasm(st, a, auth, h)     == NFTFactory_set_wasm(st, "Enumerable", a, auth, h)
NFTFactory_set_royalties_wasm(st, a, auth, h)      == NFTFactory_set_wasm(st, "Royalties", a, auth, h)
NFTFactory_set_access_control_wasm(st, a, auth, h) == NFTFactory_set_wasm(st, "AccessControl", a, auth, h)

NFTFactory_get_deployed_nfts(st) == st.registry
NFTFactory_get_nft_count(st)     == st.count

\* get_nfts_by_type(nft_type), get_nfts_by_owner(owner)
NFTFactory_get_nfts_by_type(st, nft_type) ==
    Return(st, << >>, push_matching(st.registry, 1, "nft_type", nft_type, << >>))

NFTFactory_get_nfts_by_owner(st, owner) ==
    Return(st, << >>, push_matching(st.registry, 1, "owner", owner, << >>))

NFTFactory_pause(st, a, auth)   == pause(st, a, auth)
NFTFactory_unpause(st, a, auth) == unpause(st, a, auth)
NFTFactory_upgrade(st, auth, new_wasm_hash, wasm_ok) == upgrade(st, auth, new_wasm_hash, wasm_ok)
NFTFactory_initiate_admin_transfer(st, current_admin, auth, new_admin) ==
    initiate_admin_transfer(st, current_admin, auth, new_admin)
NFTFactory_accept_admin_transfer(st, new_admin, auth) ==
    accept_admin_transfer(st, new_admin, auth)
NFTFactory_cancel_admin_transfer(st, current_admin, auth) ==
    cancel_admin_transfer(st, current_admin, auth)

\* NFTFactory::__constructor(admin)
NFTFactory_constructor(a) ==
    [ admin |-> Some(a), pending_admin |-> None, paused |-> FALSE,
      wasm |-> [k \in NFTType |-> None], slots |-> << >>, registry |-> << >>,
      count |-> U32(0), used_salts |-> {}, deployments_in_block |-> << >>,
      deploying |-> FALSE, instances |-> {} ]

(***************************************************************************)
(* GovernanceFactory                                                       *)
(***************************************************************************)
GovernanceFactory_get_wasm_for_type(st, governance_type) == st.wasm[governance_type]

\* validate_config: "ok", or the error of the first failing check
\* faulty variant: the threshold is not compared with the owners
GovernanceFactory_validate_config_any_threshold(config) ==
    IF config.governance_type = "MerkleVoting" THEN
        IF is_none(config.root_hash) THEN "InvalidConfig" ELSE "ok"
    ELSE
        IF is_none(config.owners) \/ is_none(config.threshold) THEN "InvalidConfig"
        ELSE "ok"

GovernanceFactory_validate_config(config) ==
    IF config.governance_type = "MerkleVoting" THEN
        IF is_none(config.root_hash) THEN "InvalidConfig" ELSE "ok"
    ELSE
        IF is_none(config.owners) \/ is_none(config.threshold) THEN "InvalidConfig"
        ELSE IF unwrap(config.threshold) = 0
                \/ unwrap(config.threshold) > Len(unwrap(config.owners)) THEN "InvalidConfig"
        ELSE "ok"

\* the unwraps of the constructor arguments in deploy_governance's match
GovernanceFactory_constructor_args(config) ==
    IF config.governance_type = "MerkleVoting" THEN
        IF is_none(config.root_hash) THEN "InvalidConfig" ELSE "ok"
    ELSE
        IF is_none(config.owners) \/ is_none(config.threshold) THEN "InvalidConfig" ELSE "ok"

\* faulty variant: the new record goes to the front of the list
GovernanceFactory_deploy_governance_push_front(st, seq, deployer, auth, config, inst_ok) ==
    IF ~auth THEN Panic(st, st, "AuthError")
    ELSE IF is_paused(st) THEN Panic(st, st, "ContractPaused")
    ELSE IF is_none(GovernanceFactory_get_wasm_for_type(st, config.governance_type))
         THEN Panic(st, st, "WasmNotSet")
    ELSE IF GovernanceFactory_validate_config(config) # "ok"
         THEN Panic(st, st, GovernanceFactory_validate_config(config))
    ELSE IF GovernanceFactory_constructor_args(config) # "ok"
         THEN Panic(st, st, GovernanceFactory_constructor_args(config))
    ELSE IF ~can_deploy_v2(st, config.salt,
                unwrap(GovernanceFactory_get_wasm_for_type(st, config.governance_type)), inst_ok)
         THEN Panic(st, st, "HostError")
    ELSE
      LET governance_address == contract_address("GovernanceFactory", config.salt)
          s1 == [st EXCEPT !.instances = @ \cup {config.salt}]
          governance_info == [address |-> governance_address,
                              governance_type |-> config.governance_type,
                              admin |-> config.admin, timestamp |-> timestamp(seq),
                              name |-> None]
          s2 == [s1 EXCEPT !.registry = << governance_info >> \o @]
          new_count == checked_add_1(s2.count)
      IN
      IF is_none(new_count) THEN Panic(st, s2, "CounterOverflow")
      ELSE
        LET s3 == [s2 EXCEPT !.count = unwrap(new_count)]
            ev == [type |-> "GovernanceDeployedEvent",
                   governance_address |-> governance_address,
                   governance_type |-> config.governance_type, deployer |-> deployer,
                   timestamp |-> timestamp(seq)]
        IN  Return(s3, << ev >>, Some(governance_address))

\* deploy_governance(deployer, config)
\* ran: the outcome of the calls into this factory made by the code that
\* e.deployer().with_current_contract(salt).deploy_v2 runs (the constructor)
\* before it returns; the reads of the counter and of the list come after it.
GovernanceFactory_deploy_governance_reentered(st, seq, deployer, auth, config, inst_ok, ran) ==
    IF ~auth THEN Panic(st, st, "AuthError")
    ELSE IF is_paused(st) THEN Panic(st, st, "ContractPaused")
    ELSE IF is_none(GovernanceFactory_get_wasm_for_type(st, config.governance_type))
         THEN Panic(st, st, "WasmNotSet")
    ELSE IF GovernanceFactory_validate_config(config) # "ok"
         THEN Panic(st, st, GovernanceFactory_validate_config(config))
    ELSE IF GovernanceFactory_constructor_args(config) # "ok"
         THEN Panic(st, st, GovernanceFactory_constructor_args(config))
    ELSE IF ~can_deploy_v2(st, config.salt,
                unwrap(GovernanceFactory_get_wasm_for_type(st, config.governance_type)), inst_ok)
         THEN Panic(st, st, "HostError")
    ELSE
      LET governance_address == contract_address("GovernanceFactory", config.salt)
          s1 == [ran.st EXCEPT !.instances = @ \cup {config.salt}]
          governance_info == [address |-> governance_address,
                              governance_type |-> config.governance_type,
                              admin |-> config.admin, timestamp |-> timestamp(seq),
                              name |-> None]
          s2 == [s1 EXCEPT !.registry = Append(@, governance_info)]
          new_count == checked_add_1(s2.count)
      IN
      IF is_none(new_count) THEN Panic(st, s2, "CounterOverflow")
      ELSE
        LET s3 == [s2 EXCEPT !.count = unwrap(new_count)]
            ev == [type |-> "GovernanceDeployedEvent",
                   governance_address |-> governance_address,
                   governance_type |-> config.governance_type, deployer |-> deployer,
                   timestamp |-> timestamp(seq)]
        IN  Return(s3, ran.events \o << ev >>, Some(governance_address))

\* deploy_governance when the constructor calls nothing in this factory
GovernanceFactory_deploy_governance(st, seq, deployer, auth, config, inst_ok) ==
    GovernanceFactory_deploy_governance_reentered(st, seq, deployer, auth, config, inst_ok,
                                                  Return(st, << >>, None))

\* the body of the two set_<kind>_wasm entry points
GovernanceFactory_set_wasm(st, kind, a, auth, wasm_hash) ==
    IF ~auth THEN Panic(st, st, "AuthError")
    ELSE IF require_admin(st, a) # "ok" THEN Panic(st, st, require_admin(st, a))
    ELSE Return([st EXCEPT !.wasm[kind] = Some(wasm_hash)],
                << [type |-> "WasmUpdatedEvent", governance_type_name |-> kind,
                    wasm_hash |-> wasm_hash] >>, None)

GovernanceFactory_set_merkle_voting_wasm(st, a, auth, h) ==
    GovernanceFactory_set_wasm(st, "MerkleVoting", a, auth, h)
GovernanceFactory_set_multisig_wasm(st, a, auth, h) ==
    GovernanceFactory_set_wasm(st, "Multisig", a, auth, h)

GovernanceFactory_get_deployed_governance(st) == st.registry
GovernanceFactory_get_governance_count(st)    == st.count

\* get_governance_by_type(governance_type), get_governance_by_admin(admin)
GovernanceFactory_get_governance_by_type(st, governance_type) ==
    Return(st, << >>, push_matching(st.registry, 1, "governance_type", governance_type, << >>))

GovernanceFactory_get_governance_by_admin(st, a) ==
    Return(st, << >>, push_matching(st.registry, 1, "admin", a, << >>))

GovernanceFactory_pause(st, a, auth)   == pause(st, a, auth)
GovernanceFactory_unpause(st, a, auth) == unpause(st, a, auth)
GovernanceFactory_upgrade(st, auth, new_wasm_hash, wasm_ok) ==
    upgrade(st, auth, new_wasm_hash, wasm_ok)
GovernanceFactory_initiate_admin_transfer(st, current_admin, auth, new_admin) ==
    initiate_admin_transfer(st, current_admin, auth, new_admin)
GovernanceFactory_accept_admin_transfer(st, new_admin, auth) ==
    accept_admin_transfer(st, new_admin, auth)
GovernanceFactory_cancel_admin_transfer(st, current_admin, auth) ==
    cancel_admin_transfer(st, current_admin, auth)

\* GovernanceFactory::__constructor(admin)
GovernanceFactory_constructor(a) ==
    [ admin |-> Some(a), pending_admin |-> None, paused |-> FALSE,
      wasm |-> [k \in GovernanceType |-> None], slots |-> << >>, registry |-> << >>,
      count |-> U32(0), used_salts |-> {}, deployments_in_block |-> << >>,
      deploying |-> FALSE, instances |-> {} ]

(***************************************************************************)
(* The state machine.                                                      *)
(***************************************************************************)
\* One invocation: the storage becomes the outcome's, `last` records it.
Apply(op, r) ==
    /\ admin' = r.st.admin
    /\ pending_admin' = r.st.pending_admin
    /\ paused' = r.st.paused
    /\ wasm' = r.st.wasm
    /\ slots' = r.st.slots
    /\ registry' = r.st.registry
    /\ count' = r.st.count
    /\ used_salts' = r.st.used_salts
    /\ deployments_in_block' = r.st.deployments_in_block
    /\ deploying' = r.st.deploying
    /\ instances' = r.st.instances
    /\ last' = r.err
    /\ UNCHANGED << factory, ledger, request >>

Constructed(f, st) ==
    /\ factory = f
    /\ admin = st.admin
    /\ pending_admin = st.pending_admin
    /\ paused = st.paused
    /\ wasm = st.wasm
    /\ slots = st.slots
    /\ registry = st.registry
    /\ count = st.count
    /\ used_salts = st.used_salts
    /\ deployments_in_block = st.deployments_in_block
    /\ deploying = st.deploying
    /\ instances = st.instances
    /\ ledger = 1
    /\ last = "ok"
    /\ request = None

(***************************************************************************)
(* Inputs the actions draw.  A caller is <<address, auth>>: the address    *)
(* passed and whether its require_auth() passes.  A failed require_auth    *)
(* does not depend on the address: one unauthorized caller is drawn.       *)
(***************************************************************************)
Callers == (Address \X {TRUE}) \cup {<< "A", FALSE >>}

\* deploy_token, deploy_nft and deploy_governance authenticate the deployer
\* and compare it with nothing
Deployers == {<< "C", TRUE >>, << "A", FALSE >>}

\* a valid TokenConfig of the given type
TokenBase(type, salt) ==
    [ token_type |-> type,
      admin |-> IF type \in {"Capped", "Blocklist"} THEN "B" ELSE "A",
      manager |-> "A",
      initial_supply |-> I128(1000),
      cap |-> IF type = "Capped" THEN Some(I128(2000)) ELSE None,
      name |-> << 84 >>, symbol |-> << 75 >>, decimals |-> 7, salt |-> salt,
      asset |-> IF type = "Vault" THEN Some("C") ELSE None,
      decimals_offset |-> IF type = "Vault" THEN Some(0) ELSE None ]

\* the configs deploy_token is called with: a valid one per type, a second
\* salt for one type, and the two invalid Capped shapes
TokenConfigs ==
    { TokenBase(t, 1) : t \in TokenType } \cup { TokenBase("Capped", s) : s \in Salt }
    \cup { [TokenBase("Capped", 1) EXCEPT !.cap = None],
           [TokenBase("Capped", 1) EXCEPT !.initial_supply = I128(2000000),
                                          !.cap = Some(I128(1000000))] }

\* a valid NFTConfig of the given type
NFTBase(type, salt) ==
    [ nft_type |-> type,
      owner |-> IF type = "Enumerable" THEN "A" ELSE "B",
      admin |-> IF type = "Enumerable" THEN None ELSE Some("A"),
      manager |-> IF type = "Royalties" THEN Some("B") ELSE None,
      salt |-> salt,
      name |-> IF type = "Royalties" THEN Some("Art") ELSE None,
      symbol |-> None, base_uri |-> None ]

NFTConfigs ==
    { NFTBase(t, 1) : t \in NFTType } \cup { NFTBase("Royalties", s) : s \in Salt }
    \cup { [NFTBase("Royalties", 1) EXCEPT !.manager = None] }

\* a valid GovernanceConfig of the given type
GovernanceBase(type, salt) ==
    [ governance_type |-> type,
      admin |-> IF type = "Multisig" THEN "B" ELSE "A",
      root_hash |-> IF type = "MerkleVoting" THEN Some("root") ELSE None,
      owners |-> IF type = "Multisig" THEN Some(<< "A", "B" >>) ELSE None,
      threshold |-> IF type = "Multisig" THEN Some(2) ELSE None,
      salt |-> salt ]

GovernanceConfigs ==
    { GovernanceBase(t, s) : t \in GovernanceType, s \in Salt }
    \cup { [GovernanceBase("Multisig", 1) EXCEPT !.threshold = Some(3)] }

InitMaster == Constructed("MasterFactory", MasterFactory_constructor("A"))

\* The host closes a ledger.  Only the MasterFactory reads the ledger's
\* sequence number; the other factories copy the ledger's timestamp into
\* their records and never read it back, and are run within one ledger.
AdvanceLedger ==
    /\ factory = "MasterFactory"
    /\ ledger < MaxBlock
    /\ ledger' = ledger + 1
    /\ UNCHANGED << factory, admin, pending_admin, paused, wasm, slots, registry, count,
                    used_salts, deployments_in_block, deploying, instances, last, request >>

\* The host evicts a temporary entry of an earlier ledger whose TTL has run out.
ExpireTemporary ==
    /\ factory = "MasterFactory"
    /\ \E b \in DOMAIN deployments_in_block :
          /\ b < ledger
          /\ deployments_in_block' =
                [c \in (DOMAIN deployments_in_block) \ {b} |-> deployments_in_block[c]]
    /\ UNCHANGED << factory, admin, pending_admin, paused, wasm, slots, registry, count,
                    used_salts, deploying, instances, ledger, last, request >>

Master_deploy_token_factory ==
    /\ factory = "MasterFactory"
    /\ \E c \in Callers, h \in WasmHash, s \in Salt, ok \in BOOLEAN :
          Apply("deploy_token_factory",
                MasterFactory_deploy_token_factory(Storage, ledger, c[1], c[2], h, s, ok))

Master_deploy_nft_factory ==
    /\ factory = "MasterFactory"
    /\ \E c \in Callers, h \in WasmHash, s \in Salt, ok \in BOOLEAN :
          Apply("deploy_nft_factory",
                MasterFactory_deploy_nft_factory(Storage, ledger, c[1], c[2], h, s, ok))

Master_deploy_governance_factory ==
    /\ factory = "MasterFactory"
    /\ \E c \in Callers, h \in WasmHash, s \in Salt, ok \in BOOLEAN :
          Apply("deploy_governance_factory",
                MasterFactory_deploy_governance_factory(Storage, ledger, c[1], c[2], h, s, ok))

Master_pause ==
    /\ factory = "MasterFactory"
    /\ \E c \in Callers : Apply("pause", MasterFactory_pause(Storage, c[1], c[2]))

Master_unpause ==
    /\ factory = "MasterFactory"
    /\ \E c \in Callers : Apply("unpause", MasterFactory_unpause(Storage, c[1], c[2]))

Master_upgrade ==
    /\ factory = "MasterFactory"
    /\ \E auth \in BOOLEAN, h \in WasmHash, ok \in BOOLEAN :
          Apply("upgrade", MasterFactory_upgrade(Storage, auth, h, ok))

Master_initiate_admin_transfer ==
    /\ factory = "MasterFactory"
    /\ \E c \in Callers, n \in Address :
          Apply("initiate_admin_transfer",
                MasterFactory_initiate_admin_transfer(Storage, c[1], c[2], n))

Master_accept_admin_transfer ==
    /\ factory = "MasterFactory"
    /\ \E c \in Callers :
          Apply("accept_admin_transfer", MasterFactory_accept_admin_transfer(Storage, c[1], c[2]))

Master_cancel_admin_transfer ==
    /\ factory = "MasterFactory"
    /\ \E c \in Callers :
          Apply("cancel_admin_transfer", MasterFactory_cancel_admin_transfer(Storage, c[1], c[2]))

NextMaster ==
    \/ Master_deploy_token_factory
    \/ Master_deploy_nft_factory
    \/ Master_deploy_governance_factory
    \/ Master_pause
    \/ Master_unpause
    \/ Master_upgrade
    \/ Master_initiate_admin_transfer
    \/ Master_accept_admin_transfer
    \/ Master_cancel_admin_transfer
    \/ AdvanceLedger
    \/ ExpireTemporary

SpecMaster == InitMaster /\ [][NextMaster]_vars

InitToken == Constructed("TokenFactory", TokenFactory_constructor("A"))

Token_set_allowlist_wasm ==
    /\ factory = "TokenFactory"
    /\ \E c \in Callers, h \in WasmHash :
          Apply("set_allowlist_wasm", TokenFactory_set_allowlist_wasm(Storage, c[1], c[2], h))

Token_set_blocklist_wasm ==
    /\ factory = "TokenFactory"
    /\ \E c \in Callers, h \in WasmHash :
          Apply("set_blocklist_wasm", TokenFactory_set_blocklist_wasm(Storage, c[1], c[2], h))

Token_set_capped_wasm ==
    /\ factory = "TokenFactory"
    /\ \E c \in Callers, h \in WasmHash :
          Apply("set_capped_wasm", TokenFactory_set_capped_wasm(Storage, c[1], c[2], h))

Token_set_pausable_wasm ==
    /\ factory = "TokenFactory"
    /\ \E c \in Callers, h \in WasmHash :
          Apply("set_pausable_wasm", TokenFactory_set_pausable_wasm(Storage, c[1], c[2], h))

Token_set_vault_wasm ==
    /\ factory = "TokenFactory"
    /\ \E c \in Callers, h \in WasmHash :
          Apply("set_vault_wasm", TokenFactory_set_vault_wasm(Storage, c[1], c[2], h))

Token_deploy_token ==
    /\ factory = "TokenFactory"
    /\ \E c \in Deployers, config \in TokenConfigs, ok \in BOOLEAN :
          Apply("deploy_token", TokenFactory_deploy_token(Storage, ledger, c[1], c[2], config, ok))

Token_pause ==
    /\ factory = "TokenFactory"
    /\ \E c \in Callers : Apply("pause", TokenFactory_pause(Storage, c[1], c[2]))

Token_unpause ==
    /\ factory = "TokenFactory"
    /\ \E c \in Callers : Apply("unpause", TokenFactory_unpause(Storage, c[1], c[2]))

Token_upgrade ==
    /\ factory = "TokenFactory"
    /\ \E auth \in BOOLEAN, h \in WasmHash, ok \in BOOLEAN :
          Apply("upgrade", TokenFactory_upgrade(Storage, auth, h, ok))

Token_initiate_admin_transfer ==
    /\ factory = "TokenFactory"
    /\ \E c \in Callers, n \in Address :
          Apply("initiate_admin_transfer",
                TokenFactory_initiate_admin_transfer(Storage, c[1], c[2], n))

Token_accept_admin_transfer ==
    /\ factory = "TokenFactory"
    /\ \E c \in Callers :
          Apply("accept_admin_transfer", TokenFactory_accept_admin_transfer(Storage, c[1], c[2]))

Token_cancel_admin_transfer ==
    /\ factory = "TokenFactory"
    /\ \E c \in Callers :
          Apply("cancel_admin_transfer", TokenFactory_cancel_admin_transfer(Storage, c[1], c[2]))

NextToken ==
    \/ Token_set_allowlist_wasm
    \/ Token_set_blocklist_wasm
    \/ Token_set_capped_wasm
    \/ Token_set_pausable_wasm
    \/ Token_set_vault_wasm
    \/ Token_deploy_token
    \/ Token_pause
    \/ Token_unpause
    \/ Token_upgrade
    \/ Token_initiate_admin_transfer
    \/ Token_accept_admin_transfer
    \/ Token_cancel_admin_transfer

SpecToken == InitToken /\ [][NextToken]_vars

InitNFT == Constructed("NFTFactory", NFTFactory_constructor("A"))

NFT_set_enumerable_wasm ==
    /\ factory = "NFTFactory"
    /\ \E c \in Callers, h \in WasmHash :
          Apply("set_enumerable_wasm", NFTFactory_set_enumerable_wasm(Storage, c[1], c[2], h))

NFT_set_royalties_wasm ==
    /\ factory = "NFTFactory"
    /\ \E c \in Callers, h \in WasmHash :
          Apply("set_royalties_wasm", NFTFactory_set_royalties_wasm(Storage, c[1], c[2], h))

NFT_set_access_control_wasm ==
    /\ factory = "NFTFactory"
    /\ \E c \in Callers, h \in WasmHash :
          Apply("set_access_control_wasm", NFTFactory_set_access_control_wasm(Storage, c[1], c[2], h))

NFT_deploy_nft ==
    /\ factory = "NFTFactory"
    /\ \E c \in Deployers, config \in NFTConfigs, ok \in BOOLEAN :
          Apply("deploy_nft", NFTFactory_deploy_nft(Storage, ledger, c[1], c[2], config, ok))

NFT_pause ==
    /\ factory = "NFTFactory"
    /\ \E c \in Callers : Apply("pause", NFTFactory_pause(Storage, c[1], c[2]))

NFT_unpause ==
    /\ factory = "NFTFactory"
    /\ \E c \in Callers : Apply("unpause", NFTFactory_unpause(Storage, c[1], c[2]))

NFT_upgrade ==
    /\ factory = "NFTFactory"
    /\ \E auth \in BOOLEAN, h \in WasmHash, ok \in BOOLEAN :
          Apply("upgrade", NFTFactory_upgrade(Storage, auth, h, ok))

NFT_initiate_admin_transfer ==
    /\ factory = "NFTFactory"
    /\ \E c \in Callers, n \in Address :
          Apply("initiate_admin_transfer",
                NFTFactory_initiate_admin_transfer(Storage, c[1], c[2], n))

NFT_accept_admin_transfer ==
    /\ factory = "NFTFactory"
    /\ \E c \in Callers :
          Apply("accept_admin_transfer", NFTFactory_accept_admin_transfer(Storage, c[1], c[2]))

NFT_cancel_admin_transfer ==
    /\ factory = "NFTFactory"
    /\ \E c \in Callers :
          Apply("cancel_admin_transfer", NFTFactory_cancel_admin_transfer(Storage, c[1], c[2]))

NextNFT ==
    \/ NFT_set_enumerable_wasm
    \/ NFT_set_royalties_wasm
    \/ NFT_set_access_control_wasm
    \/ NFT_deploy_nft
    \/ NFT_pause
    \/ NFT_unpause
    \/ NFT_upgrade
    \/ NFT_initiate_admin_transfer
    \/ NFT_accept_admin_transfer
    \/ NFT_cancel_admin_transfer

SpecNFT == InitNFT /\ [][NextNFT]_vars

InitGovernance == Constructed("GovernanceFactory", GovernanceFactory_constructor("A"))

Governance_set_merkle_voting_wasm ==
    /\ factory = "GovernanceFactory"
    /\ \E c \in Callers, h \in WasmHash :
          Apply("set_merkle_voting_wasm", GovernanceFactory_set_merkle_voting_wasm(Storage, c[1], c[2], h))

Governance_set_multisig_wasm ==
    /\ factory = "GovernanceFactory"
    /\ \E c \in Callers, h \in WasmHash :
          Apply("set_multisig_wasm", GovernanceFactory_set_multisig_wasm(Storage, c[1], c[2], h))

Governance_deploy_governance ==
    /\ factory = "GovernanceFactory"
    /\ \E c \in Deployers, config \in GovernanceConfigs, ok \in BOOLEAN :
          Apply("deploy_governance", GovernanceFactory_deploy_governance(Storage, ledger, c[1], c[2], config, ok))

Governance_pause ==
    /\ factory = "GovernanceFactory"
    /\ \E c \in Callers : Apply("pause", GovernanceFactory_pause(Storage, c[1], c[2]))

Governance_unpause ==
    /\ factory = "GovernanceFactory"
    /\ \E c \in Callers : Apply("unpause", GovernanceFactory_unpause(Storage, c[1], c[2]))

Governance_upgrade ==
    /\ factory = "GovernanceFactory"
    /\ \E auth \in BOOLEAN, h \in WasmHash, ok \in BOOLEAN :
          Apply("upgrade", GovernanceFactory_upgrade(Storage, auth, h, ok))

Governance_initiate_admin_transfer ==
    /\ factory = "GovernanceFactory"
    /\ \E c \in Callers, n \in Address :
          Apply("initiate_admin_transfer",
                GovernanceFactory_initiate_admin_transfer(Storage, c[1], c[2], n))

Governance_accept_admin_transfer ==
    /\ factory = "GovernanceFactory"
    /\ \E c \in Callers :
          Apply("accept_admin_transfer", GovernanceFactory_accept_admin_transfer(Storage, c[1], c[2]))

Governance_cancel_admin_transfer ==
    /\ factory = "GovernanceFactory"
    /\ \E c \in Callers :
          Apply("cancel_admin_transfer", GovernanceFactory_cancel_admin_transfer(Storage, c[1], c[2]))

NextGovernance ==
    \/ Governance_set_merkle_voting_wasm
    \/ Governance_set_multisig_wasm
    \/ Governance_deploy_governance
    \/ Governance_pause
    \/ Governance_unpause
    \/ Governance_upgrade
    \/ Governance_initiate_admin_transfer
    \/ Governance_accept_admin_transfer
    \/ Governance_cancel_admin_transfer

SpecGovernance == InitGovernance /\ [][NextGovernance]_vars

(***************************************************************************)
(* Any one of the four factories.                                          *)
(***************************************************************************)
Init == InitMaster \/ InitToken \/ InitNFT \/ InitGovernance

Next == NextMaster \/ NextToken \/ NextNFT \/ NextGovernance

Spec == Init /\ [][Next]_vars

(***************************************************************************)
(* The two factories whose configs carry no amounts: NFTFactory or         *)
(* GovernanceFactory.                                                      *)
(***************************************************************************)
InitNFTGovernance == InitNFT \/ InitGovernance

NextNFTGovernance == NextNFT \/ NextGovernance

SpecNFTGovernance == InitNFTGovernance /\ [][NextNFTGovernance]_vars

(***************************************************************************)
(* TokenFactory deploying in one ledger with a new salt each time, as its  *)
(* rate-limit test does: the i-th deployment uses salt i, up to one        *)
(* deployment more than the MasterFactory's limit per ledger.              *)
(***************************************************************************)
Token_deploy_token_in_turn ==
    /\ factory = "TokenFactory"
    /\ Len(registry) <= RateLimit
    /\ \E t \in {"Allowlist", "Blocklist"}, ok \in BOOLEAN :
          Apply("deploy_token",
                TokenFactory_deploy_token(Storage, ledger, "C", TRUE,
                                          TokenBase(t, Len(registry) + 1), ok))

NextTokenRate ==
    \/ Token_set_allowlist_wasm
    \/ Token_set_blocklist_wasm
    \/ Token_deploy_token_in_turn

SpecTokenRate == InitToken /\ [][NextTokenRate]_vars

(***************************************************************************)
(* TokenFactory, NFTFactory or GovernanceFactory one deployment short of   *)
(* the largest counter: the factory as constructed, with the counter at    *)
(* u32::MAX - 1.  The records and the instances of the deployments counted *)
(* so far are left out (deploy_* reads the list only to append to it, and  *)
(* those deployments used other salts), so registry holds the records      *)
(* appended from here on.                                                  *)
(***************************************************************************)
InitOverflow ==
    LET near(st) == [st EXCEPT !.count = << 65535, 65534 >>]
    IN  \/ Constructed("TokenFactory", near(TokenFactory_constructor("A")))
        \/ Constructed("NFTFactory", near(NFTFactory_constructor("A")))
        \/ Constructed("GovernanceFactory", near(GovernanceFactory_constructor("A")))

NextOverflow == NextToken \/ NextNFT \/ NextGovernance

SpecOverflow == InitOverflow /\ [][NextOverflow]_vars

(***************************************************************************)
(* TokenFactory's validate_config as a function of the config: the state   *)
(* starts with a config to validate, and the one step validates it.        *)
(***************************************************************************)
\* i128 amounts in increasing order, written limb by limb
\* i128::MIN, -1
BelowZero ==
    << [ neg |-> TRUE,  mag |-> << 32768, 0, 0, 0, 0, 0, 0, 0 >> ],
       [ neg |-> TRUE,  mag |-> << 0, 0, 0, 0, 0, 0, 0, 1 >> ] >>

\* 0, 1000, 2^126 - 1 = i128::MAX / 2
UpToHalf ==
    << [ neg |-> FALSE, mag |-> << 0, 0, 0, 0, 0, 0, 0, 0 >> ],
       [ neg |-> FALSE, mag |-> << 0, 0, 0, 0, 0, 0, 0, 1000 >> ],
       [ neg |-> FALSE, mag |-> << 16383, 65535, 65535, 65535, 65535, 65535, 65535, 65535 >> ] >>

\* 2^126, i128::MAX
AboveHalf ==
    << [ neg |-> FALSE, mag |-> << 16384, 0, 0, 0, 0, 0, 0, 0 >> ],
       [ neg |-> FALSE, mag |-> << 32767, 65535, 65535, 65535, 65535, 65535, 65535, 65535 >> ] >>

Amounts == BelowZero \o UpToHalf \o AboveHalf

\* the positions in Amounts of 0 and of i128::MAX / 2
ZeroRank == Len(BelowZero) + 1
HalfRank == Len(BelowZero) + Len(UpToHalf)

\* the position of an amount in Amounts
Rank(x) == CHOOSE i \in 1..Len(Amounts) : Amounts[i] = x

\* a string of n bytes b
Repeat(b, n) == [i \in 1..n |-> b]

\* names: well-formed ones of 1 and 30 bytes and one with tab, LF and CR;
\* empty, 31 bytes, a NUL byte, a control byte (31)
GoodNames == { << 84 >>, Repeat(65, MaxNameLen), << 9, 84, 10, 13 >> }
BadNames  == { << >>, Repeat(65, MaxNameLen + 1), << 84, 0 >>, << 84, 31, 85 >> }

\* symbols: well-formed ones of 1 and 12 bytes; empty, 13 bytes, a NUL byte,
\* a control byte (27)
GoodSymbols == { << 75 >>, Repeat(75, MaxSymbolLen) }
BadSymbols  == { << >>, Repeat(75, MaxSymbolLen + 1), << 0 >>, << 75, 27 >> }

\* the configs validated: every type, amount, cap, presence of the optional
\* fields, name and symbol
TokenRequests ==
    { [ token_type |-> t, admin |-> "A", manager |-> "B",
        initial_supply |-> Amounts[i], cap |-> cap,
        name |-> name, symbol |-> symbol, decimals |-> 7, salt |-> 1,
        asset |-> asset, decimals_offset |-> offset ] :
      t \in TokenType, i \in 1..Len(Amounts),
      cap \in {None} \cup { Some(Amounts[j]) : j \in ZeroRank..Len(Amounts) },
      name \in GoodNames \cup BadNames, symbol \in GoodSymbols \cup BadSymbols,
      asset \in {None, Some("C")}, offset \in {None, Some(0)} }

\* a constructed factory f that is handed one of the configs to validate
Validating(f, st, configs) ==
    /\ factory = f
    /\ admin = st.admin
    /\ pending_admin = st.pending_admin
    /\ paused = st.paused
    /\ wasm = st.wasm
    /\ slots = st.slots
    /\ registry = st.registry
    /\ count = st.count
    /\ used_salts = st.used_salts
    /\ deployments_in_block = st.deployments_in_block
    /\ deploying = st.deploying
    /\ instances = st.instances
    /\ ledger = 1
    /\ last = "none"
    /\ request \in { Some(c) : c \in configs }

InitTokenValidation == Validating("TokenFactory", TokenFactory_constructor("A"), TokenRequests)

Token_validate_config ==
    /\ factory = "TokenFactory"
    /\ last = "none"
    /\ is_some(request)
    /\ last' = TokenFactory_validate_config(unwrap(request))
    /\ UNCHANGED << factory, admin, pending_admin, paused, wasm, slots, registry, count,
                    used_salts, deployments_in_block, deploying, instances, ledger, request >>

NextTokenValidation == Token_validate_config

SpecTokenValidation == InitTokenValidation /\ [][NextTokenValidation]_vars

(***************************************************************************)
(* Properties.  The entry points are applied to the storage of the state   *)
(* under check; a caller named in a property has authorized the call       *)
(* (require_auth passes) unless the property says otherwise.               *)
(***************************************************************************)
\* the get_*_count of the factory
get_count(st) ==
    CASE factory = "TokenFactory"      -> TokenFactory_get_token_count(st)
      [] factory = "NFTFactory"        -> NFTFactory_get_nft_count(st)
      [] factory = "GovernanceFactory" -> GovernanceFactory_get_governance_count(st)

\* the get_deployed_* of the factory
get_deployed(st) ==
    CASE factory = "TokenFactory"      -> TokenFactory_get_deployed_tokens(st)
      [] factory = "NFTFactory"        -> NFTFactory_get_deployed_nfts(st)
      [] factory = "GovernanceFactory" -> GovernanceFactory_get_deployed_governance(st)

\* C1: in TokenFactory, NFTFactory and GovernanceFactory, in every reachable
\* state, the counter get_*_count returns equals the length of the list
\* get_deployed_* returns.
C1_CounterIsRegistryLength ==
    factory \in {"TokenFactory", "NFTFactory", "GovernanceFactory"}
        => get_count(Storage) = U32(Len(get_deployed(Storage)))

\* two deployments succeeded and a later one failed
C1_Witness ==
    /\ factory = "TokenFactory"
    /\ Len(registry) = 2
    /\ count = U32(2)
    /\ last = "CapTooLow"

\* deploy_<ftype>_factory of the MasterFactory
MasterFactory_deploy_factory(ftype, st, seq, deployer, auth, wasm_hash, salt, inst_ok) ==
    CASE ftype = "Token" ->
            MasterFactory_deploy_token_factory(st, seq, deployer, auth, wasm_hash, salt, inst_ok)
      [] ftype = "NFT" ->
            MasterFactory_deploy_nft_factory(st, seq, deployer, auth, wasm_hash, salt, inst_ok)
      [] ftype = "Governance" ->
            MasterFactory_deploy_governance_factory(st, seq, deployer, auth, wasm_hash, salt,
                                                    inst_ok)

\* the salts of the deployments that succeeded
DeployedSalts(st) == { st.registry[i].address[2] : i \in 1..Len(st.registry) }

\* C2: on an unpaused MasterFactory, once a deploy_*_factory call with salt s
\* has succeeded, every deploy_*_factory call by the admin with salt s fails
\* with DuplicateSalt, whatever the factory type and the wasm hash.
C2_DuplicateSalt ==
    (factory = "MasterFactory" /\ ~paused) =>
        \A s \in DeployedSalts(Storage), t \in FactoryType, h \in WasmHash, ok \in BOOLEAN :
            LET r == MasterFactory_deploy_factory(t, Storage, ledger, unwrap(admin), TRUE,
                                                  h, s, ok)
            IN  r.err = "DuplicateSalt" /\ r.st = Storage

\* a deployment has just been refused for its salt
C2_Witness ==
    /\ factory = "MasterFactory"
    /\ ~paused
    /\ last = "DuplicateSalt"
    /\ DeployedSalts(Storage) # {}

\* the deployments the registry records for block b
DeployedInBlock(st, b) ==
    { i \in 1..Len(st.registry) : st.registry[i].timestamp = timestamp(b) }

DeployAttempts(st, seq, d, auth) ==
    CASE factory = "MasterFactory" ->
            { MasterFactory_deploy_factory(t, st, seq, d, auth, h, s, ok) :
                 t \in FactoryType, h \in WasmHash, s \in Salt, ok \in BOOLEAN }
      [] factory = "TokenFactory" ->
            { TokenFactory_deploy_token(st, seq, d, auth, c, ok) :
                 c \in TokenConfigs, ok \in BOOLEAN }
      [] factory = "NFTFactory" ->
            { NFTFactory_deploy_nft(st, seq, d, auth, c, ok) :
                 c \in NFTConfigs, ok \in BOOLEAN }
      [] factory = "GovernanceFactory" ->
            { GovernanceFactory_deploy_governance(st, seq, d, auth, c, ok) :
                 c \in GovernanceConfigs, ok \in BOOLEAN }

\* C4 as claimed: in each of the four factories, while paused, every
\* deployment attempt fails with ContractPaused and leaves the storage as it
\* was.
C4_AsClaimed ==
    paused =>
        \A d \in Address : \A r \in DeployAttempts(Storage, ledger, d, TRUE) :
            r.err = "ContractPaused" /\ r.st = Storage

\* C4 (amended): in each of the four factories, while paused, every
\* deployment attempt fails, produces no address and leaves the registry, the
\* counter, the used-salt set and the rate counters unchanged; it fails with
\* ContractPaused when the deployer has authorized the call and, on the
\* MasterFactory (which checks the admin before the pause flag), is the admin.
C4_PauseGating ==
    paused =>
        \A d \in Address, auth \in BOOLEAN :
            \A r \in DeployAttempts(Storage, ledger, d, auth) :
                /\ r.err # "ok"
                /\ r.ret = None
                /\ r.st = Storage
                /\ (auth /\ (factory = "MasterFactory" => Some(d) = admin))
                      => r.err = "ContractPaused"

\* a deployment has just been refused by a paused factory that has deployed
C4_Witness ==
    /\ paused
    /\ last = "ContractPaused"
    /\ Len(registry) > 0

\* initiate_admin_transfer(a, n) of the factory, authorized by a
Initiate(st, a, n) ==
    CASE factory = "MasterFactory"     -> MasterFactory_initiate_admin_transfer(st, a, TRUE, n)
      [] factory = "TokenFactory"      -> TokenFactory_initiate_admin_transfer(st, a, TRUE, n)
      [] factory = "NFTFactory"        -> NFTFactory_initiate_admin_transfer(st, a, TRUE, n)
      [] factory = "GovernanceFactory" ->
            GovernanceFactory_initiate_admin_transfer(st, a, TRUE, n)

\* accept_admin_transfer(n) of the factory, authorized by n
Accept(st, n) ==
    CASE factory = "MasterFactory"     -> MasterFactory_accept_admin_transfer(st, n, TRUE)
      [] factory = "TokenFactory"      -> TokenFactory_accept_admin_transfer(st, n, TRUE)
      [] factory = "NFTFactory"        -> NFTFactory_accept_admin_transfer(st, n, TRUE)
      [] factory = "GovernanceFactory" -> GovernanceFactory_accept_admin_transfer(st, n, TRUE)

\* cancel_admin_transfer(a) of the factory, authorized by a
Cancel(st, a) ==
    CASE factory = "MasterFactory"     -> MasterFactory_cancel_admin_transfer(st, a, TRUE)
      [] factory = "TokenFactory"      -> TokenFactory_cancel_admin_transfer(st, a, TRUE)
      [] factory = "NFTFactory"        -> NFTFactory_cancel_admin_transfer(st, a, TRUE)
      [] factory = "GovernanceFactory" -> GovernanceFactory_cancel_admin_transfer(st, a, TRUE)

\* C5: in every factory, with A the stored admin, initiate_admin_transfer(A, B)
\* sets pending_admin = B while get_admin still returns A, a following
\* accept_admin_transfer(B) sets admin = B and pending_admin = None, and the
\* pair can be repeated from B to a third address C.
C5_TwoStepTransfer ==
    \A B \in Address, C \in Address :
        LET A  == unwrap(admin)
            r1 == Initiate(Storage, A, B)
            r2 == Accept(r1.st, B)
            r3 == Initiate(r2.st, B, C)
            r4 == Accept(r3.st, C)
        IN  /\ r1.err = "ok"
            /\ get_pending_admin(r1.st) = Some(B)
            /\ get_admin(r1.st).ret = Some(A)
            /\ r1.st = [Storage EXCEPT !.pending_admin = Some(B)]
            /\ r2.err = "ok"
            /\ get_admin(r2.st).ret = Some(B)
            /\ get_pending_admin(r2.st) = None
            /\ r2.st = [Storage EXCEPT !.admin = Some(B), !.pending_admin = None]
            /\ r3.err = "ok"
            /\ get_pending_admin(r3.st) = Some(C)
            /\ get_admin(r3.st).ret = Some(B)
            /\ r4.err = "ok"
            /\ get_admin(r4.st).ret = Some(C)
            /\ get_pending_admin(r4.st) = None

\* the admin the factory was constructed with has been replaced, and the
\* last call went through with no transfer left pending
C5_Witness ==
    /\ admin = Some("C")
    /\ pending_admin = None
    /\ last = "ok"

\* C6: in every factory, while a transfer to B is pending,
\* accept_admin_transfer(C) by an address C other than B fails with
\* NotPendingAdmin and leaves admin and pending_admin as they were; B can
\* still accept afterwards.
C6_WrongAcceptor ==
    \A B \in Address, C \in Address :
        (pending_admin = Some(B) /\ C # B) =>
            LET r1 == Accept(Storage, C)
                r2 == Accept(r1.st, B)
            IN  /\ r1.err = "NotPendingAdmin"
                /\ r1.st.admin = admin
                /\ r1.st.pending_admin = pending_admin
                /\ r1.st = Storage
                /\ r2.err = "ok"
                /\ r2.st.admin = Some(B)

\* an accept by another address has just failed and the transfer still pends
C6_Witness ==
    /\ is_some(pending_admin)
    /\ pending_admin # admin
    /\ last = "NotPendingAdmin"

\* C7: in every factory, cancel_admin_transfer(A) by the stored admin A after
\* initiate_admin_transfer(A, B) restores pending_admin = None with admin
\* still A, and a later accept_admin_transfer(B) fails with NoPendingAdmin.
C7_Cancel ==
    \A B \in Address :
        LET A  == unwrap(admin)
            r1 == Initiate(Storage, A, B)
            r2 == Cancel(r1.st, A)
            r3 == Accept(r2.st, B)
        IN  /\ r1.err = "ok" /\ r1.st.pending_admin = Some(B)
            /\ r2.err = "ok"
            /\ r2.st.pending_admin = None
            /\ r2.st.admin = Some(A)
            /\ r2.st = [Storage EXCEPT !.pending_admin = None]
            /\ r3.err = "NoPendingAdmin"
            /\ r3.st = r2.st

\* an accept has just failed for want of a pending transfer, the admin being
\* the one the factory was constructed with
C7_Witness ==
    /\ admin = Some("A")
    /\ pending_admin = None
    /\ last = "NoPendingAdmin"

\* C8: in every factory, accept_admin_transfer with no transfer pending fails
\* with NoPendingAdmin and changes nothing; after a successful
\* accept_admin_transfer(B) a second accept_admin_transfer(B) fails with
\* NoPendingAdmin and the admin stays B.
C8_AcceptWithoutPending ==
    /\ pending_admin = None =>
          \A X \in Address :
              Accept(Storage, X).err = "NoPendingAdmin" /\ Accept(Storage, X).st = Storage
    /\ \A B \in Address :
          pending_admin = Some(B) =>
              LET r1 == Accept(Storage, B)
                  r2 == Accept(r1.st, B)
              IN  /\ r1.err = "ok"
                  /\ r2.err = "NoPendingAdmin"
                  /\ r2.st = r1.st
                  /\ r2.st.admin = Some(B)

\* an accept has just failed for want of a pending transfer, after a transfer
\* was completed
C8_Witness ==
    /\ admin = Some("B")
    /\ pending_admin = None
    /\ last = "NoPendingAdmin"

\* pause, unpause, initiate_admin_transfer and cancel_admin_transfer of the
\* factory, called with address x
AdminCalls(st, x) ==
    CASE factory = "MasterFactory" ->
            { MasterFactory_pause(st, x, TRUE), MasterFactory_unpause(st, x, TRUE),
              MasterFactory_cancel_admin_transfer(st, x, TRUE) }
            \cup { MasterFactory_initiate_admin_transfer(st, x, TRUE, n) : n \in Address }
      [] factory = "TokenFactory" ->
            { TokenFactory_pause(st, x, TRUE), TokenFactory_unpause(st, x, TRUE),
              TokenFactory_cancel_admin_transfer(st, x, TRUE) }
            \cup { TokenFactory_initiate_admin_transfer(st, x, TRUE, n) : n \in Address }
      [] factory = "NFTFactory" ->
            { NFTFactory_pause(st, x, TRUE), NFTFactory_unpause(st, x, TRUE),
              NFTFactory_cancel_admin_transfer(st, x, TRUE) }
            \cup { NFTFactory_initiate_admin_transfer(st, x, TRUE, n) : n \in Address }
      [] factory = "GovernanceFactory" ->
            { GovernanceFactory_pause(st, x, TRUE), GovernanceFactory_unpause(st, x, TRUE),
              GovernanceFactory_cancel_admin_transfer(st, x, TRUE) }
            \cup { GovernanceFactory_initiate_admin_transfer(st, x, TRUE, n) : n \in Address }

\* the set_*_wasm entry points of the factory and, on the MasterFactory, the
\* deploy_*_factory entry points, called with address x
AdminConfigCalls(st, seq, x) ==
    CASE factory = "MasterFactory" ->
            { MasterFactory_deploy_factory(t, st, seq, x, TRUE, h, s, ok) :
                 t \in FactoryType, h \in WasmHash, s \in Salt, ok \in BOOLEAN }
      [] factory = "TokenFactory" ->
            UNION { { TokenFactory_set_allowlist_wasm(st, x, TRUE, h),
                      TokenFactory_set_blocklist_wasm(st, x, TRUE, h),
                      TokenFactory_set_capped_wasm(st, x, TRUE, h),
                      TokenFactory_set_pausable_wasm(st, x, TRUE, h),
                      TokenFactory_set_vault_wasm(st, x, TRUE, h) } : h \in WasmHash }
      [] factory = "NFTFactory" ->
            UNION { { NFTFactory_set_enumerable_wasm(st, x, TRUE, h),
                      NFTFactory_set_royalties_wasm(st, x, TRUE, h),
                      NFTFactory_set_access_control_wasm(st, x, TRUE, h) } : h \in WasmHash }
      [] factory = "GovernanceFactory" ->
            UNION { { GovernanceFactory_set_merkle_voting_wasm(st, x, TRUE, h),
                      GovernanceFactory_set_multisig_wasm(st, x, TRUE, h) } : h \in WasmHash }

\* C9: in every factory, each admin-gated operation (set_*_wasm, pause,
\* unpause, initiate_admin_transfer, cancel_admin_transfer and, on the
\* MasterFactory, deploy_*_factory) called with an address other than the
\* stored admin fails with NotAdmin and changes no state; the address may be
\* a former admin or the pending admin.
C9_NotAdmin ==
    \A x \in Address :
        Some(x) # admin =>
            \A r \in AdminCalls(Storage, x) \cup AdminConfigCalls(Storage, ledger, x) :
                r.err = "NotAdmin" /\ r.st = Storage /\ r.ret = None

\* a call has just failed with NotAdmin in a state that has a former admin
\* and a pending admin who has not accepted
C9_Witness ==
    /\ admin # Some("A")
    /\ is_some(pending_admin)
    /\ pending_admin # admin
    /\ last = "NotAdmin"

\* the supplies and caps of the Capped configs under check
Amount == { -1, 0, 1000000, 2000000 }

\* a Capped config that is valid but for the cap
CappedConfig(s, supply, cap) ==
    [TokenBase("Capped", s) EXCEPT !.initial_supply = I128(supply), !.cap = cap]

\* the outcome of a call rejected with err: no write, no event, no value
Rejected(err) == [ st |-> Storage, err |-> err, events |-> << >>, ret |-> None ]

\* C10: in TokenFactory, with the Capped template registered and the factory
\* unpaused, an otherwise valid Capped config with cap = None is rejected with
\* MissingCap and one with initial_supply > cap with CapTooLow; either is
\* rejected before any instantiation attempt: whether or not an instantiation
\* would succeed, no address is returned and the storage (the counter and the
\* registry in it) is unchanged.
C10_CappedValidation ==
    ( /\ factory = "TokenFactory"
      /\ ~paused
      /\ is_some(TokenFactory_get_wasm_for_type(Storage, "Capped")) )
    => \A c \in Deployers, s \in Salt, supply \in Amount \ {-1}, ok \in BOOLEAN :
          /\ TokenFactory_deploy_token(Storage, ledger, c[1], TRUE,
                                       CappedConfig(s, supply, None), ok)
                = Rejected("MissingCap")
          /\ \A cap \in Amount :
                supply > cap =>
                    TokenFactory_deploy_token(Storage, ledger, c[1], TRUE,
                                              CappedConfig(s, supply, Some(I128(cap))), ok)
                        = Rejected("CapTooLow")

\* a Capped config has just been rejected for its cap by a factory that has
\* deployed a token
C10_Witness ==
    /\ factory = "TokenFactory"
    /\ last \in {"MissingCap", "CapTooLow"}
    /\ Len(registry) = 1
    /\ count = U32(1)

\* the config under validation and the verdict of validate_config on it
Validated == last # "none" /\ is_some(request)
Config == unwrap(request)
WellNamed == Config.name \in GoodNames /\ Config.symbol \in GoodSymbols

\* C11 as claimed: deploy_token accepts a config's amounts only if
\* initial_supply is non-negative and strictly below i128::MAX / 2, and a cap,
\* when present, lies between initial_supply and i128::MAX / 2; a negative
\* initial_supply is rejected with NegativeSupply, an initial_supply or cap
\* beyond the bound with SupplyTooLarge.
C11_AsClaimed ==
    Validated =>
        /\ last = "ok" =>
              /\ Rank(Config.initial_supply) >= ZeroRank
              /\ Rank(Config.initial_supply) < HalfRank
              /\ is_some(Config.cap) =>
                    /\ Rank(unwrap(Config.cap)) >= Rank(Config.initial_supply)
                    /\ Rank(unwrap(Config.cap)) <= HalfRank
        /\ WellNamed /\ Rank(Config.initial_supply) < ZeroRank => last = "NegativeSupply"
        /\ WellNamed /\ Rank(Config.initial_supply) > HalfRank => last = "SupplyTooLarge"

\* C11 (amended): validate_config accepts a config's amounts only if
\* 0 <= initial_supply <= i128::MAX / 2 (the bound itself is accepted) and a
\* cap, when present, satisfies initial_supply <= cap <= i128::MAX / 2; with a
\* well-formed name and symbol, a negative initial_supply is rejected with
\* NegativeSupply, an initial_supply above the bound with SupplyTooLarge, and
\* a Capped config whose supply is in range and whose cap is above the bound
\* with SupplyTooLarge.
C11_SupplyBounds ==
    Validated =>
        /\ last = "ok" =>
              /\ Rank(Config.initial_supply) >= ZeroRank
              /\ Rank(Config.initial_supply) <= HalfRank
              /\ is_some(Config.cap) =>
                    /\ Rank(unwrap(Config.cap)) >= Rank(Config.initial_supply)
                    /\ Rank(unwrap(Config.cap)) <= HalfRank
        /\ WellNamed /\ Rank(Config.initial_supply) < ZeroRank => last = "NegativeSupply"
        /\ WellNamed /\ Rank(Config.initial_supply) > HalfRank => last = "SupplyTooLarge"
        /\ ( /\ WellNamed
             /\ Config.token_type = "Capped"
             /\ Rank(Config.initial_supply) \in ZeroRank..HalfRank
             /\ is_some(Config.cap)
             /\ Rank(unwrap(Config.cap)) > HalfRank ) => last = "SupplyTooLarge"

\* a Capped config with initial_supply = cap = i128::MAX / 2 was accepted
C11_Witness ==
    /\ Validated
    /\ last = "ok"
    /\ Config.token_type = "Capped"
    /\ Rank(Config.initial_supply) = HalfRank
    /\ Config.cap = Some(Amounts[HalfRank])

\* the config supplies exactly the optional fields of its type
ExactFields(config) ==
    /\ is_some(config.cap) <=> config.token_type = "Capped"
    /\ is_some(config.asset) <=> config.token_type = "Vault"
    /\ is_some(config.decimals_offset) <=> config.token_type = "Vault"

\* the supply is within 0..i128::MAX / 2
SupplyInRange == Rank(Config.initial_supply) \in ZeroRank..HalfRank

\* C12: validate_config enforces the presence of the optional fields both
\* ways: it accepts a config only if the config supplies exactly the optional
\* fields of its type (cap for Capped, asset and decimals_offset for Vault,
\* none for Allowlist, Blocklist, Pausable).  In a config with a well-formed
\* name and symbol and a supply in range, at the first failing check: a Vault
\* without asset or decimals_offset is rejected with InvalidConfig and a Vault
\* with both and a cap with UnexpectedCap; an Allowlist, Blocklist or Pausable
\* with a cap is rejected with UnexpectedCap and, without a cap but with an
\* asset or decimals_offset, with InvalidConfig; a Capped without cap is
\* rejected (MissingCap) and a Capped with an admissible cap and an asset or
\* decimals_offset with InvalidConfig; a config with exactly the fields of its
\* type and admissible amounts is accepted.
C12_FieldPresence ==
    Validated =>
        /\ last = "ok" => ExactFields(Config)
        /\ (WellNamed /\ SupplyInRange) =>
              /\ Config.token_type = "Vault" =>
                    /\ (is_none(Config.asset) \/ is_none(Config.decimals_offset))
                          => last = "InvalidConfig"
                    /\ ( /\ is_some(Config.asset)
                         /\ is_some(Config.decimals_offset)
                         /\ is_some(Config.cap) ) => last = "UnexpectedCap"
              /\ Config.token_type \in {"Allowlist", "Blocklist", "Pausable"} =>
                    /\ is_some(Config.cap) => last = "UnexpectedCap"
                    /\ ( /\ is_none(Config.cap)
                         /\ (is_some(Config.asset) \/ is_some(Config.decimals_offset)) )
                          => last = "InvalidConfig"
              /\ Config.token_type = "Capped" =>
                    /\ is_none(Config.cap) => last = "MissingCap"
                    /\ ( /\ is_some(Config.cap)
                         /\ Rank(unwrap(Config.cap)) \in Rank(Config.initial_supply)..HalfRank
                         /\ (is_some(Config.asset) \/ is_some(Config.decimals_offset)) )
                          => last = "InvalidConfig"
              /\ ( /\ ExactFields(Config)
                   /\ is_some(Config.cap) =>
                         Rank(unwrap(Config.cap)) \in Rank(Config.initial_supply)..HalfRank )
                    => last = "ok"

\* a Vault config with asset, decimals_offset and a cap was rejected with
\* UnexpectedCap
C12_Witness ==
    /\ Validated
    /\ last = "UnexpectedCap"
    /\ Config.token_type = "Vault"
    /\ is_some(Config.asset)
    /\ is_some(Config.decimals_offset)
    /\ is_some(Config.cap)

\* the bytes a name or symbol may contain: no NUL and no control byte below
\* 32 other than tab, newline and carriage return
AllowedByte(b) == b >= 32 \/ b \in {9, 10, 13}

\* a string of 1..max bytes, all of them allowed
WellFormed(s, max) ==
    /\ Len(s) \in 1..max
    /\ \A i \in 1..Len(s) : AllowedByte(s[i])

\* C13: validate_config accepts a config only if its name has 1..30 bytes and
\* its symbol 1..12 bytes, all of them allowed bytes; for every token type and
\* whatever the other fields, a config with a violating name and a well-formed
\* symbol is rejected with InvalidName, one with a well-formed name and a
\* violating symbol with InvalidSymbol, and one in which both violate with
\* one of the two.
C13_NameAndSymbol ==
    Validated =>
        /\ last = "ok" =>
              /\ WellFormed(Config.name, 30)
              /\ WellFormed(Config.symbol, 12)
        /\ ( /\ ~WellFormed(Config.name, 30)
             /\ WellFormed(Config.symbol, 12) ) => last = "InvalidName"
        /\ ( /\ WellFormed(Config.name, 30)
             /\ ~WellFormed(Config.symbol, 12) ) => last = "InvalidSymbol"
        /\ ( /\ ~WellFormed(Config.name, 30)
             /\ ~WellFormed(Config.symbol, 12) ) => last \in {"InvalidName", "InvalidSymbol"}
        /\ ( /\ WellFormed(Config.name, 30)
             /\ WellFormed(Config.symbol, 12) ) => last \notin {"InvalidName", "InvalidSymbol"}

\* a Vault config whose name holds a control byte, and whose symbol has 12
\* bytes, was rejected with InvalidName
C13_Witness ==
    /\ Validated
    /\ last = "InvalidName"
    /\ Config.token_type = "Vault"
    /\ Len(Config.name) = 3
    /\ Config.name[2] = 31
    /\ Len(Config.symbol) = 12

\* the owner lists and thresholds a Multisig config is tried with
OwnerLists == { None, Some(<< >>), Some(<< "A" >>), Some(<< "A", "B" >>),
                Some(<< "A", "B", "C" >>) }
Thresholds == { None } \cup { Some(n) : n \in 0..4 }

\* a Multisig config that is valid but for its owners and threshold
MultisigConfig(s, owners, threshold) ==
    [GovernanceBase("Multisig", s) EXCEPT !.owners = owners, !.threshold = threshold]

\* owners is present and non-empty, threshold is present, 1 <= threshold <= #owners
MultisigAdmissible(owners, threshold) ==
    /\ is_some(owners)
    /\ Len(unwrap(owners)) > 0
    /\ is_some(threshold)
    /\ 1 <= unwrap(threshold)
    /\ unwrap(threshold) <= Len(unwrap(owners))

\* C14: in GovernanceFactory, unpaused and with the Multisig template
\* registered, a Multisig config passes validation exactly when owners is
\* present and non-empty and threshold is present with 1 <= threshold <=
\* #owners: any other is rejected with InvalidConfig, whether or not an
\* instantiation would succeed, with no address returned and the storage
\* unchanged; an admissible one is not rejected with InvalidConfig, and is
\* deployed when its salt is unused and the instantiation succeeds.
C14_MultisigValidation ==
    ( /\ factory = "GovernanceFactory"
      /\ ~paused
      /\ is_some(GovernanceFactory_get_wasm_for_type(Storage, "Multisig")) )
    => \A s \in Salt, owners \in OwnerLists, threshold \in Thresholds, ok \in BOOLEAN :
          LET r == GovernanceFactory_deploy_governance(
                       Storage, ledger, "C", TRUE, MultisigConfig(s, owners, threshold), ok)
          IN  IF MultisigAdmissible(owners, threshold)
              THEN /\ r.err \in {"ok", "HostError"}
                   /\ (ok /\ s \notin instances) => r.err = "ok"
              ELSE r = Rejected("InvalidConfig")

\* a Multisig config has just been rejected by a factory that has deployed a
\* Multisig
C14_Witness ==
    /\ factory = "GovernanceFactory"
    /\ last = "InvalidConfig"
    /\ Len(registry) = 1
    /\ registry[1].governance_type = "Multisig"

\* an NFTConfig of the given type with the given admin and manager
NFTWith(type, s, a, m) == [NFTBase(type, s) EXCEPT !.admin = a, !.manager = m]

\* a GovernanceConfig of the given type with the given optional fields
GovernanceWith(type, s, root, owners, threshold) ==
    [GovernanceBase(type, s) EXCEPT !.root_hash = root, !.owners = owners,
                                    !.threshold = threshold]

\* the optional fields the configs are tried with, present or absent
OptAdmin     == { None, Some("A") }
OptManager   == { None, Some("B") }
OptRoot      == { None, Some("root") }
OptOwners    == { None, Some(<< "A", "B" >>) }
OptThreshold == { None, Some(2) }

\* C15: in NFTFactory and GovernanceFactory, unpaused and with the type's
\* template registered, a config that omits a field its type requires (admin
\* or manager for Royalties, admin for AccessControl, root_hash for
\* MerkleVoting) is rejected with InvalidConfig before instantiation: whether
\* or not an instantiation would succeed, no address is returned and the
\* storage (the counter and the registry in it) is unchanged.
C15_MissingRequiredField ==
    /\ (factory = "NFTFactory" /\ ~paused) =>
          \A s \in Salt, a \in OptAdmin, m \in OptManager, ok \in BOOLEAN :
             /\ ( /\ is_some(NFTFactory_get_wasm_for_type(Storage, "Royalties"))
                  /\ (is_none(a) \/ is_none(m)) )
                   => NFTFactory_deploy_nft(Storage, ledger, "C", TRUE,
                                            NFTWith("Royalties", s, a, m), ok)
                         = Rejected("InvalidConfig")
             /\ ( /\ is_some(NFTFactory_get_wasm_for_type(Storage, "AccessControl"))
                  /\ is_none(a) )
                   => NFTFactory_deploy_nft(Storage, ledger, "C", TRUE,
                                            NFTWith("AccessControl", s, a, m), ok)
                         = Rejected("InvalidConfig")
    /\ ( /\ factory = "GovernanceFactory"
         /\ ~paused
         /\ is_some(GovernanceFactory_get_wasm_for_type(Storage, "MerkleVoting")) ) =>
          \A s \in Salt, owners \in OptOwners, threshold \in OptThreshold, ok \in BOOLEAN :
             GovernanceFactory_deploy_governance(
                 Storage, ledger, "C", TRUE,
                 GovernanceWith("MerkleVoting", s, None, owners, threshold), ok)
                = Rejected("InvalidConfig")

\* a config has just been rejected by an NFTFactory that has deployed an NFT
C15_Witness ==
    /\ factory = "NFTFactory"
    /\ last = "InvalidConfig"
    /\ Len(registry) = 1
    /\ count = U32(1)

\* C16: in NFTFactory and GovernanceFactory, unpaused and with the type's
\* template registered, a config that supplies a field its type does not
\* admit (admin or manager for Enumerable, manager for AccessControl, owners
\* or threshold for MerkleVoting, root_hash for Multisig) is rejected with
\* InvalidConfig and never instantiated: no address is returned and the
\* storage is unchanged.
C16_UnexpectedField ==
    /\ (factory = "NFTFactory" /\ ~paused) =>
          \A s \in Salt, a \in OptAdmin, m \in OptManager, ok \in BOOLEAN :
             /\ ( /\ is_some(NFTFactory_get_wasm_for_type(Storage, "Enumerable"))
                  /\ (is_some(a) \/ is_some(m)) )
                   => NFTFactory_deploy_nft(Storage, ledger, "C", TRUE,
                                            NFTWith("Enumerable", s, a, m), ok)
                         = Rejected("InvalidConfig")
             /\ ( /\ is_some(NFTFactory_get_wasm_for_type(Storage, "AccessControl"))
                  /\ is_some(m) )
                   => NFTFactory_deploy_nft(Storage, ledger, "C", TRUE,
                                            NFTWith("AccessControl", s, a, m), ok)
                         = Rejected("InvalidConfig")
    /\ (factory = "GovernanceFactory" /\ ~paused) =>
          \A s \in Salt, root \in OptRoot, owners \in OptOwners,
             threshold \in OptThreshold, ok \in BOOLEAN :
             /\ ( /\ is_some(GovernanceFactory_get_wasm_for_type(Storage, "MerkleVoting"))
                  /\ (is_some(owners) \/ is_some(threshold)) )
                   => GovernanceFactory_deploy_governance(
                          Storage, ledger, "C", TRUE,
                          GovernanceWith("MerkleVoting", s, root, owners, threshold), ok)
                         = Rejected("InvalidConfig")
             /\ ( /\ is_some(GovernanceFactory_get_wasm_for_type(Storage, "Multisig"))
                  /\ is_some(root) )
                   => GovernanceFactory_deploy_governance(
                          Storage, ledger, "C", TRUE,
                          GovernanceWith("Multisig", s, root, owners, threshold), ok)
                         = Rejected("InvalidConfig")

\* configs paired with the verdict validation owes them: a valid one of
\* every type, and invalid ones of every type
TokenTrials ==
    { << TokenBase(t, 1), "ok" >> : t \in TokenType }
    \cup { << [TokenBase(t, 1) EXCEPT !.name = << >>], "InvalidName" >> : t \in TokenType }
    \cup { << [TokenBase(t, 1) EXCEPT !.decimals = 19], "InvalidDecimals" >> : t \in TokenType }
    \cup { << CappedConfig(1, 1000, None), "MissingCap" >>,
           << [TokenBase("Vault", 1) EXCEPT !.asset = None], "InvalidConfig" >>,
           << [TokenBase("Pausable", 1) EXCEPT !.cap = Some(I128(2000))], "UnexpectedCap" >> }

NFTTrials ==
    { << NFTBase(t, 1), "ok" >> : t \in NFTType }
    \cup { << NFTWith("Enumerable", 1, None, Some("B")), "InvalidConfig" >>,
           << NFTWith("Royalties", 1, Some("A"), None), "InvalidConfig" >>,
           << NFTWith("AccessControl", 1, None, None), "InvalidConfig" >> }

GovernanceTrials ==
    { << GovernanceBase(t, 1), "ok" >> : t \in GovernanceType }
    \cup { << GovernanceWith("MerkleVoting", 1, None, None, None), "InvalidConfig" >>,
           << MultisigConfig(1, Some(<< "A" >>), Some(2)), "InvalidConfig" >> }

\* the outcome r of a deployment, given whether the template of the config's
\* type is registered and the verdict validation owes the config
InCheckOrder(r, registered, verdict) ==
    IF paused THEN r = Rejected("ContractPaused")
    ELSE IF ~registered THEN r = Rejected("WasmNotSet")
    ELSE IF verdict # "ok" THEN r = Rejected(verdict)
    ELSE r.err \in {"ok", "HostError"}

\* C17: deploy_token, deploy_nft and deploy_governance, called by an
\* authorized deployer, evaluate their checks in the order pause, template
\* lookup, config validation, instantiation: on a paused factory the call
\* fails with ContractPaused even if the template is unset or the config
\* invalid; on an unpaused factory without a template for the config's type
\* it fails with WasmNotSet even if the config is invalid; a validation error
\* is reported only when the factory is unpaused and the template registered.
\* In these three cases nothing is instantiated and the storage is unchanged,
\* whether or not an instantiation would succeed.
C17_CheckOrder ==
    \A ok \in BOOLEAN :
       /\ factory = "TokenFactory" =>
             \A t \in TokenTrials :
                InCheckOrder(TokenFactory_deploy_token(Storage, ledger, "C", TRUE, t[1], ok),
                             is_some(wasm[t[1].token_type]), t[2])
       /\ factory = "NFTFactory" =>
             \A t \in NFTTrials :
                InCheckOrder(NFTFactory_deploy_nft(Storage, ledger, "C", TRUE, t[1], ok),
                             is_some(wasm[t[1].nft_type]), t[2])
       /\ factory = "GovernanceFactory" =>
             \A t \in GovernanceTrials :
                InCheckOrder(GovernanceFactory_deploy_governance(
                                 Storage, ledger, "C", TRUE, t[1], ok),
                             is_some(wasm[t[1].governance_type]), t[2])

\* an unpaused TokenFactory with the Capped template only has just refused a
\* deployment of another type with WasmNotSet
C17_Witness ==
    /\ factory = "TokenFactory"
    /\ ~paused
    /\ last = "WasmNotSet"
    /\ is_some(wasm["Capped"])
    /\ \A t \in TokenType \ {"Capped"} : is_none(wasm[t])

\* the outcomes of every call of every entry point of the MasterFactory that
\* writes storage, by any caller, authorized or not
MasterCalls(st, seq) ==
    UNION { { MasterFactory_pause(st, c[1], c[2]),
              MasterFactory_unpause(st, c[1], c[2]),
              MasterFactory_accept_admin_transfer(st, c[1], c[2]),
              MasterFactory_cancel_admin_transfer(st, c[1], c[2]) }
            \cup { MasterFactory_initiate_admin_transfer(st, c[1], c[2], n) : n \in Address }
            \cup { MasterFactory_upgrade(st, c[2], h, ok) : h \in WasmHash, ok \in BOOLEAN }
            \cup { MasterFactory_deploy_factory(t, st, seq, c[1], c[2], h, s, ok) :
                      t \in FactoryType, h \in WasmHash, s \in Salt, ok \in BOOLEAN }
            : c \in Address \X BOOLEAN }

Upgrade(st, auth, h, wasm_ok) ==
    CASE factory = "MasterFactory"     -> MasterFactory_upgrade(st, auth, h, wasm_ok)
      [] factory = "TokenFactory"      -> TokenFactory_upgrade(st, auth, h, wasm_ok)
      [] factory = "NFTFactory"        -> NFTFactory_upgrade(st, auth, h, wasm_ok)
      [] factory = "GovernanceFactory" -> GovernanceFactory_upgrade(st, auth, h, wasm_ok)

\* unpause(a) of the factory, authorized by a
Unpause(st, a) ==
    CASE factory = "MasterFactory"     -> MasterFactory_unpause(st, a, TRUE)
      [] factory = "TokenFactory"      -> TokenFactory_unpause(st, a, TRUE)
      [] factory = "NFTFactory"        -> NFTFactory_unpause(st, a, TRUE)
      [] factory = "GovernanceFactory" -> GovernanceFactory_unpause(st, a, TRUE)

\* a successful upgrade needs the stored admin's authorization and changes
\* the storage in nothing but paused, which it sets
UpgradePauses ==
    \A auth \in BOOLEAN, h \in WasmHash, wasm_ok \in BOOLEAN :
       LET r == Upgrade(Storage, auth, h, wasm_ok)
       IN  IF auth /\ wasm_ok
           THEN r.err = "ok" /\ r.st = [Storage EXCEPT !.paused = TRUE]
           ELSE r.err # "ok" /\ r.st = Storage

\* on a paused factory the only call that leaves it unpaused is the admin's
\* unpause: not a deployment, an upgrade, a set_*_wasm, a pause, or a step of
\* an admin transfer, whoever calls
PausedUntilUnpause ==
    paused =>
        /\ \A auth \in BOOLEAN, h \in WasmHash, wasm_ok \in BOOLEAN :
              Upgrade(Storage, auth, h, wasm_ok).st.paused
        /\ \A x \in Address :
              /\ Accept(Storage, x).st.paused
              /\ \A r \in DeployAttempts(Storage, ledger, x, TRUE)
                          \cup AdminConfigCalls(Storage, ledger, x) : r.st.paused
              /\ \A r \in AdminCalls(Storage, x) :
                    ~r.st.paused => (Some(x) = admin /\ r = Unpause(Storage, x))
              /\ Some(x) = admin =>
                    Unpause(Storage, x).st = [Storage EXCEPT !.paused = FALSE]

\* C19 as claimed: in every factory upgrade succeeds only with the
\* authorization of the stored admin and leaves paused = true and the rest of
\* the storage unchanged, and every deployment fails with ContractPaused from
\* then on until the admin calls unpause.
C19_AsClaimed ==
    /\ UpgradePauses
    /\ PausedUntilUnpause
    /\ \A h \in WasmHash, d \in Address :
          \A q \in DeployAttempts(Upgrade(Storage, TRUE, h, TRUE).st, ledger, d, TRUE) :
             q.err = "ContractPaused"

\* C19 (amended): in every factory upgrade succeeds only with the
\* authorization of the stored admin and leaves paused = true and the rest of
\* the storage (admin, pending_admin, catalog, registry, counter) unchanged;
\* from then on, until the admin calls unpause, every deployment attempt
\* fails and changes nothing: with ContractPaused when the deployer has
\* authorized the call and, on the MasterFactory (which checks the admin
\* before the pause flag), is the admin, with NotAdmin for another deployer of
\* the MasterFactory.
C19_UpgradePauses ==
    /\ UpgradePauses
    /\ PausedUntilUnpause
    /\ \A h \in WasmHash, d \in Address :
          LET up == Upgrade(Storage, TRUE, h, TRUE).st
          IN  \A q \in DeployAttempts(up, ledger, d, TRUE) :
                 /\ q.st = up
                 /\ q.ret = None
                 /\ q.err = IF factory = "MasterFactory" /\ Some(d) # admin
                            THEN "NotAdmin" ELSE "ContractPaused"

\* a paused MasterFactory (upgrade and pause leave the same storage) that has
\* deployed a factory and has an admin transfer pending has just refused a
\* deployment
C19_Witness ==
    /\ factory = "MasterFactory"
    /\ paused
    /\ last = "ContractPaused"
    /\ is_some(pending_admin)
    /\ Len(registry) = 1

\* pause(a) of the factory, authorized by a
Pause(st, a) ==
    CASE factory = "MasterFactory"     -> MasterFactory_pause(st, a, TRUE)
      [] factory = "TokenFactory"      -> TokenFactory_pause(st, a, TRUE)
      [] factory = "NFTFactory"        -> NFTFactory_pause(st, a, TRUE)
      [] factory = "GovernanceFactory" -> GovernanceFactory_pause(st, a, TRUE)

\* the outcome r is a success that wrote st and published one event, of the
\* given type
SucceededWithOneEvent(r, st, type) ==
    /\ r.err = "ok"
    /\ r.st = st
    /\ Len(r.events) = 1
    /\ r.events[1].type = type

\* C20: in every factory pause and unpause are idempotent: pause by the admin
\* succeeds, on a paused factory as on an unpaused one, and leaves paused =
\* true; unpause by the admin succeeds, on an unpaused factory as on a paused
\* one, and leaves paused = false; neither changes anything else in the
\* storage (a repeated call changes nothing at all), and each successful call,
\* the repeated one too, publishes exactly one ContractPausedEvent (resp.
\* ContractUnpausedEvent).
C20_PauseIdempotent ==
    LET a == unwrap(admin)
        p == Pause(Storage, a)
        u == Unpause(Storage, a)
    IN  /\ SucceededWithOneEvent(p, [Storage EXCEPT !.paused = TRUE], "ContractPausedEvent")
        /\ SucceededWithOneEvent(u, [Storage EXCEPT !.paused = FALSE], "ContractUnpausedEvent")
        /\ paused => p.st = Storage
        /\ ~paused => u.st = Storage
        /\ SucceededWithOneEvent(Pause(p.st, a), p.st, "ContractPausedEvent")
        /\ SucceededWithOneEvent(Unpause(u.st, a), u.st, "ContractUnpausedEvent")

\* a paused GovernanceFactory that has deployed has just run a call that
\* succeeded, and pausing it once more leaves its storage as it is
C20_Witness ==
    /\ factory = "GovernanceFactory"
    /\ paused
    /\ last = "ok"
    /\ Len(registry) = 1
    /\ Pause(Storage, unwrap(admin)).st = Storage

\* C21: in every factory, initiate_admin_transfer(A, B) by the admin A,
\* called again with the same arguments in the state the first call produced,
\* succeeds again and leaves the storage (admin and pending_admin in it)
\* exactly as after the first call; the same holds of cancel_admin_transfer(A);
\* cancel_admin_transfer by the admin when no transfer is pending succeeds
\* and changes no state.
C21_TransferIdempotent ==
    LET a == unwrap(admin)
        c == Cancel(Storage, a)
    IN  /\ \A n \in Address :
              LET i == Initiate(Storage, a, n)
              IN  /\ i.err = "ok"
                  /\ i.st = [Storage EXCEPT !.pending_admin = Some(n)]
                  /\ Initiate(i.st, a, n).err = "ok"
                  /\ Initiate(i.st, a, n).st = i.st
        /\ c.err = "ok"
        /\ c.st = [Storage EXCEPT !.pending_admin = None]
        /\ Cancel(c.st, a).err = "ok"
        /\ Cancel(c.st, a).st = c.st
        /\ is_none(pending_admin) => c.st = Storage

\* an NFTFactory that has deployed and has no transfer pending has just run a
\* call that succeeded, and a cancel by its admin leaves its storage as it is
C21_Witness ==
    /\ factory = "NFTFactory"
    /\ is_none(pending_admin)
    /\ last = "ok"
    /\ Len(registry) = 1
    /\ Cancel(Storage, unwrap(admin)).err = "ok"
    /\ Cancel(Storage, unwrap(admin)).st = Storage

\* The storage that code run by deploy_v2 finds: the outer deploy_*_factory
\* has passed its checks and has set Deploying.
InsideDeploy(st) == [st EXCEPT !.deploying = TRUE]

\* A call of deploy_<t>_factory by d, authorized, made from code that the
\* instantiation of an outer deploy_*_factory runs.  admitted: the host lets
\* the re-entrant call reach the contract; otherwise the host fails the call
\* before the entry point runs.
NestedDeploy(st, seq, admitted, t, d, h, s, ok) ==
    IF admitted
    THEN MasterFactory_deploy_factory(t, InsideDeploy(st), seq, d, TRUE, h, s, ok)
    ELSE Panic(InsideDeploy(st), InsideDeploy(st), "HostError")

\* the deploy_<t>_factory calls of the admin that reach their instantiation
ReachInstantiation(st, seq) ==
    { x \in FactoryType \X WasmHash \X Salt :
         MasterFactory_deploy_factory(x[1], st, seq, unwrap(st.admin), TRUE, x[2], x[3], TRUE).err
            = "ok" }

\* the number of factory slots that are set
SlotsSet(st) == Cardinality({ t \in FactoryType : is_some(st.slots[t]) })

\* a deploy_*_factory call that succeeds makes one registry entry, one slot
\* write and one rate-counter increment
OneDeployment(st, seq, x) ==
    LET r == MasterFactory_deploy_factory(x[1], st, seq, unwrap(st.admin), TRUE, x[2], x[3], TRUE)
    IN  /\ Len(r.st.registry) = Len(st.registry) + 1
        /\ SlotsSet(r.st) = SlotsSet(st) + 1
        /\ Some(deployments_count(r.st, seq)) = checked_add_1(deployments_count(st, seq))

MasterDeployCalls(st, seq) ==
    { MasterFactory_deploy_factory(t, st, seq, c[1], c[2], h, s, ok) :
         t \in FactoryType, c \in Address \X BOOLEAN, h \in WasmHash, s \in Salt,
         ok \in BOOLEAN }

\* C23: on the MasterFactory the Deploying flag is false in every state
\* between top-level operations: every deploy_*_factory call leaves it false,
\* the successful one and the one that fails for whatever reason (a failed
\* authorization, NotAdmin, ContractPaused, RateLimitExceeded, DuplicateSalt,
\* FactoryAlreadyDeployed, a failed instantiation); a failed call leaves the
\* whole storage as it was, so that it never locks out a later deploy, which
\* is never refused with Reentrancy.
C23_DeployingFlag ==
    factory = "MasterFactory" =>
        /\ ~deploying
        /\ \A r \in MasterDeployCalls(Storage, ledger) :
              /\ ~r.st.deploying
              /\ r.err # "Reentrancy"
              /\ r.err # "ok" => r.st = Storage

\* an instantiation has just failed on a MasterFactory that has deployed, and
\* the flag is clear
C23_Witness ==
    /\ factory = "MasterFactory"
    /\ last = "HostError"
    /\ ~deploying
    /\ Len(registry) = 1

\* C24: on the MasterFactory, unpaused, when the instantiation inside a
\* deploy_*_factory call by the admin (type not yet deployed, salt unused)
\* fails, the call fails and commits nothing: the salt is not marked used,
\* the block's counter is not incremented, the slot stays empty, no
\* FactoryInfo is appended and no address is returned; a retry by the admin
\* with the same salt whose instantiation succeeds then succeeds, marks the
\* salt, sets the slot and appends one FactoryInfo.
C24_FailedInstantiation ==
    (factory = "MasterFactory" /\ ~paused) =>
        \A t \in FactoryType, h \in WasmHash, s \in Salt \ used_salts :
           is_none(slots[t]) =>
              LET failed == MasterFactory_deploy_factory(t, Storage, ledger, unwrap(admin),
                                                         TRUE, h, s, FALSE)
              IN  /\ failed = Rejected("HostError")
                  /\ \A h2 \in WasmHash :
                        LET retry == MasterFactory_deploy_factory(
                                         t, failed.st, ledger, unwrap(admin), TRUE, h2, s, TRUE)
                        IN  /\ retry.err = "ok"
                            /\ retry.ret = Some(contract_address("MasterFactory", s))
                            /\ retry.st.used_salts = used_salts \cup {s}
                            /\ retry.st.slots[t] = retry.ret
                            /\ Len(retry.st.registry) = Len(registry) + 1

\* an instantiation has just failed on an unpaused MasterFactory that has
\* deployed nothing: no salt is used, no counter, slot or record is written
C24_Witness ==
    /\ factory = "MasterFactory"
    /\ ~paused
    /\ last = "HostError"
    /\ used_salts = {}
    /\ instances = {}
    /\ registry = << >>
    /\ DOMAIN deployments_in_block = {}
    /\ \A t \in FactoryType : is_none(slots[t])

\* the deployment of config c by deployer d in the factory of the state
DeployWith(st, seq, d, c, ok) ==
    CASE factory = "TokenFactory" -> TokenFactory_deploy_token(st, seq, d, TRUE, c, ok)
      [] factory = "NFTFactory" -> NFTFactory_deploy_nft(st, seq, d, TRUE, c, ok)
      [] factory = "GovernanceFactory" -> GovernanceFactory_deploy_governance(st, seq, d, TRUE, c, ok)

DeployConfigs ==
    CASE factory = "TokenFactory" -> TokenConfigs
      [] factory = "NFTFactory" -> NFTConfigs
      [] factory = "GovernanceFactory" -> GovernanceConfigs

\* C25: in TokenFactory, NFTFactory and GovernanceFactory, with the counter
\* at u32::MAX no deployment succeeds and every attempt leaves the counter
\* and the registry (the whole storage) as they were; an attempt that would
\* have succeeded with the counter one lower fails with CounterOverflow,
\* returns no address and emits no event.
C25_CounterOverflow ==
    (factory \in {"TokenFactory", "NFTFactory", "GovernanceFactory"} /\ count = U32_MAX) =>
        \A d \in Address, c \in DeployConfigs, ok \in BOOLEAN :
           LET r    == DeployWith(Storage, ledger, d, c, ok)
               below == DeployWith([Storage EXCEPT !.count = << 65535, 65534 >>],
                                   ledger, d, c, ok)
           IN  /\ r.err # "ok"
               /\ r.st = Storage
               /\ r.st.count = U32_MAX
               /\ r.st.registry = registry
               /\ below.err = "ok" => r = Rejected("CounterOverflow")

\* the NFTFactory, which appends the record before it increments the counter,
\* has deployed once more, reached u32::MAX and refused the next deployment
C25_Witness ==
    /\ factory = "NFTFactory"
    /\ count = U32_MAX
    /\ last = "CounterOverflow"
    /\ Len(registry) = 1
    /\ \E d \in Address, c \in NFTConfigs :
          NFTFactory_deploy_nft(Storage, ledger, d, TRUE, c, TRUE) = Rejected("CounterOverflow")

\* every call of an entry point that writes, in the factory of the state:
\* whoever calls, authorized or not, with whatever arguments
EveryCall(st, seq) ==
    CASE factory = "MasterFactory" -> MasterCalls(st, seq)
      [] factory = "TokenFactory" ->
            UNION { { TokenFactory_pause(st, c[1], c[2]),
                      TokenFactory_unpause(st, c[1], c[2]),
                      TokenFactory_accept_admin_transfer(st, c[1], c[2]),
                      TokenFactory_cancel_admin_transfer(st, c[1], c[2]) }
                    \cup { TokenFactory_initiate_admin_transfer(st, c[1], c[2], n) : n \in Address }
                    \cup { TokenFactory_upgrade(st, c[2], h, ok) : h \in WasmHash, ok \in BOOLEAN }
                    \cup { TokenFactory_set_wasm(st, k, c[1], c[2], h) : k \in TokenType, h \in WasmHash }
                    \cup DeployAttempts(st, seq, c[1], c[2])
                    : c \in Address \X BOOLEAN }
      [] factory = "NFTFactory" ->
            UNION { { NFTFactory_pause(st, c[1], c[2]),
                      NFTFactory_unpause(st, c[1], c[2]),
                      NFTFactory_accept_admin_transfer(st, c[1], c[2]),
                      NFTFactory_cancel_admin_transfer(st, c[1], c[2]) }
                    \cup { NFTFactory_initiate_admin_transfer(st, c[1], c[2], n) : n \in Address }
                    \cup { NFTFactory_upgrade(st, c[2], h, ok) : h \in WasmHash, ok \in BOOLEAN }
                    \cup { NFTFactory_set_wasm(st, k, c[1], c[2], h) : k \in NFTType, h \in WasmHash }
                    \cup DeployAttempts(st, seq, c[1], c[2])
                    : c \in Address \X BOOLEAN }
      [] factory = "GovernanceFactory" ->
            UNION { { GovernanceFactory_pause(st, c[1], c[2]),
                      GovernanceFactory_unpause(st, c[1], c[2]),
                      GovernanceFactory_accept_admin_transfer(st, c[1], c[2]),
                      GovernanceFactory_cancel_admin_transfer(st, c[1], c[2]) }
                    \cup { GovernanceFactory_initiate_admin_transfer(st, c[1], c[2], n) : n \in Address }
                    \cup { GovernanceFactory_upgrade(st, c[2], h, ok) : h \in WasmHash, ok \in BOOLEAN }
                    \cup { GovernanceFactory_set_wasm(st, k, c[1], c[2], h) :
                              k \in GovernanceType, h \in WasmHash }
                    \cup DeployAttempts(st, seq, c[1], c[2])
                    : c \in Address \X BOOLEAN }

\* C26: in each of the four factories every call that ends in an error (a
\* contract error, a failed authorization, a failed instantiation or a failed
\* wasm update) leaves the whole storage as it was before the call, publishes
\* no event and returns nothing.
C26_FailureIsAtomic ==
    \A r \in EveryCall(Storage, ledger) :
        r.err # "ok" => r = Rejected(r.err)

\* a call has just failed in the host on a TokenFactory that has deployed
\* once; from here an upgrade to a wasm that is not installed, which sets
\* paused and publishes its event before the host refuses, leaves no trace
C26_Witness ==
    /\ factory = "TokenFactory"
    /\ last = "HostError"
    /\ ~paused
    /\ Len(registry) = 1
    /\ \E h \in WasmHash : TokenFactory_upgrade(Storage, TRUE, h, FALSE) = Rejected("HostError")

\* C27: on the MasterFactory the used-salt set only grows: a salt that is a
\* member before a step is a member after it, whatever the step is (a pause,
\* an unpause, an upgrade, a step of an admin transfer, a deployment that
\* succeeds or fails, a new ledger, the expiry of a rate counter).
C27_UsedSaltsMonotone ==
    [][factory = "MasterFactory" => used_salts \subseteq used_salts']_vars

\* a salt is used, and since then the admin has changed, the factory has been
\* paused, another transfer is pending, the ledger has advanced and the rate
\* counters have expired
C27_Witness ==
    /\ factory = "MasterFactory"
    /\ used_salts # {}
    /\ admin # Some("A")
    /\ is_some(pending_admin)
    /\ paused
    /\ ledger = MaxBlock
    /\ DOMAIN deployments_in_block = {}

\* the sequence s is an initial part of the sequence t
IsPrefix(s, t) == Len(s) <= Len(t) /\ SubSeq(t, 1, Len(s)) = s

\* C28: in every factory the registry is append-only: a successful deployment
\* appends exactly one record, the record of the address it returns, at the
\* end of the list, and in every step (of whatever entry point, successful or
\* not) the registry before the step is an initial part of the registry after
\* it, longer by one record at most.
C28_RegistryAppendOnly ==
    /\ [](\A d \in Address : \A r \in DeployAttempts(Storage, ledger, d, TRUE) :
             r.err = "ok" =>
                 /\ Len(r.st.registry) = Len(registry) + 1
                 /\ IsPrefix(registry, r.st.registry)
                 /\ Some(r.st.registry[Len(r.st.registry)].address) = r.ret)
    /\ [][IsPrefix(registry, registry') /\ Len(registry') <= Len(registry) + 1]_vars

\* a GovernanceFactory has deployed twice: the record of the first deployment
\* is still the first record, the record of the second follows it
C28_Witness ==
    /\ factory = "GovernanceFactory"
    /\ Len(registry) = 2
    /\ registry[1].address # registry[2].address
    /\ last = "ok"

\* the authorized calls of initiate_admin_transfer, accept_admin_transfer and
\* cancel_admin_transfer
TransferCalls(st) ==
    { Initiate(st, a, n) : a \in Address, n \in Address }
    \cup { Accept(st, n) : n \in Address }
    \cup { Cancel(st, a) : a \in Address }

\* C29: in every factory pending_admin is None after construction, Some(n)
\* after every successful initiate_admin_transfer(_, n) and None after every
\* successful accept_admin_transfer and cancel_admin_transfer; no call of any
\* other entry point (pause, unpause, upgrade, set_*_wasm, deploy) and no
\* failed call changes it, and a step changes it only by being one of those
\* three calls.  Hence pending_admin is Some exactly when the most recent
\* successful call among the three was an initiate.
C29_PendingAdmin ==
    /\ is_none(pending_admin)
    /\ [](/\ \A a \in Address, n \in Address :
                Initiate(Storage, a, n).err = "ok" =>
                    Initiate(Storage, a, n).st.pending_admin = Some(n)
          /\ \A n \in Address :
                Accept(Storage, n).err = "ok" => is_none(Accept(Storage, n).st.pending_admin)
          /\ \A a \in Address :
                Cancel(Storage, a).err = "ok" => is_none(Cancel(Storage, a).st.pending_admin)
          /\ \A r \in EveryCall(Storage, ledger) :
                r.st.pending_admin # pending_admin =>
                    r.err = "ok" /\ r \in TransferCalls(Storage))
    /\ [][pending_admin' # pending_admin =>
             \E r \in TransferCalls(Storage) : r.err = "ok" /\ r.st = Storage']_vars

\* a TokenFactory whose admin changed hands, where a second transfer has
\* been initiated and is still pending after a deployment and a pause
C29_Witness ==
    /\ factory = "TokenFactory"
    /\ admin = Some("B")
    /\ pending_admin = Some("C")
    /\ paused
    /\ Len(registry) = 1

\* C30: in TokenFactory, unpaused, once a deploy_token with salt s has
\* succeeded, a second deploy_token with the same salt and an otherwise valid
\* config of another type (its template registered) fails with the contract
\* error of code 14, and the registry and the counter are as the first
\* deployment left them.
C30_DuplicateSalt ==
    (factory = "TokenFactory" /\ ~paused) =>
        \A t \in TokenType, s \in Salt, d \in Address, ok \in BOOLEAN :
           ( /\ is_some(TokenFactory_get_wasm_for_type(Storage, t))
             /\ \E i \in 1..Len(registry) :
                   /\ registry[i].address = contract_address("TokenFactory", s)
                   /\ registry[i].token_type # t )
              => LET r == TokenFactory_deploy_token(Storage, ledger, d, TRUE, TokenBase(t, s), ok)
                 IN  /\ r.err \in DOMAIN TokenFactoryError
                     /\ TokenFactoryError[r.err] = 14
                     /\ r.st.registry = registry
                     /\ r.st.count = count

\* C31: in TokenFactory, unpaused and with the type's template registered, a
\* deploy_token with a new salt succeeds while fewer than 10 tokens have been
\* deployed in the ledger; once 10 have been, it fails with the contract error
\* of code 15, and the same call in the next ledger succeeds.  (The
\* TokenFactory never leaves its first ledger here, so the registry holds the
\* deployments of the current ledger.)
C31_RateLimit ==
    (factory = "TokenFactory" /\ ~paused) =>
        \A t \in TokenType, s \in (1..(RateLimit + 1)) \ instances, d \in Address :
           is_some(TokenFactory_get_wasm_for_type(Storage, t)) =>
              LET r     == TokenFactory_deploy_token(Storage, ledger, d, TRUE, TokenBase(t, s), TRUE)
                  later == TokenFactory_deploy_token(Storage, ledger + 1, d, TRUE,
                                                     TokenBase(t, s), TRUE)
              IN  /\ Len(registry) < RateLimit => r.err = "ok"
                  /\ Len(registry) = RateLimit =>
                        /\ r.err \in DOMAIN TokenFactoryError
                        /\ TokenFactoryError[r.err] = 15
                        /\ r.st = Storage
                        /\ later.err = "ok"

\* the outcome r is the contract error of TokenFactory with the given code
FailsWithCode(r, code) ==
    /\ r.err \in DOMAIN TokenFactoryError
    /\ TokenFactoryError[r.err] = code

\* C32: TokenFactory reports its errors under the codes its unit tests
\* expect: an authorized deploy_token on a paused factory fails with code 21,
\* accept_admin_transfer by an address other than the pending admin with code
\* 20, and accept_admin_transfer with no transfer pending with code 19.
C32_ErrorCodes ==
    factory = "TokenFactory" =>
        /\ paused =>
              \A d \in Address, c \in TokenConfigs, ok \in BOOLEAN :
                 FailsWithCode(TokenFactory_deploy_token(Storage, ledger, d, TRUE, c, ok), 21)
        /\ \A n \in Address :
              /\ (is_some(pending_admin) /\ pending_admin # Some(n)) =>
                    FailsWithCode(TokenFactory_accept_admin_transfer(Storage, n, TRUE), 20)
              /\ is_none(pending_admin) =>
                    FailsWithCode(TokenFactory_accept_admin_transfer(Storage, n, TRUE), 19)

\* the query of the factory by kind, and the one by recorded admin or owner
get_by_type(st, k) ==
    CASE factory = "TokenFactory"      -> TokenFactory_get_tokens_by_type(st, k)
      [] factory = "NFTFactory"        -> NFTFactory_get_nfts_by_type(st, k)
      [] factory = "GovernanceFactory" -> GovernanceFactory_get_governance_by_type(st, k)

get_by_holder(st, a) ==
    CASE factory = "TokenFactory"      -> TokenFactory_get_tokens_by_admin(st, a)
      [] factory = "NFTFactory"        -> NFTFactory_get_nfts_by_owner(st, a)
      [] factory = "GovernanceFactory" -> GovernanceFactory_get_governance_by_admin(st, a)

\* the kinds of the factory, the kind of a record and its admin or owner
Kinds ==
    CASE factory = "TokenFactory"      -> TokenType
      [] factory = "NFTFactory"        -> NFTType
      [] factory = "GovernanceFactory" -> GovernanceType

KindOf(rec) ==
    CASE factory = "TokenFactory"      -> rec.token_type
      [] factory = "NFTFactory"        -> rec.nft_type
      [] factory = "GovernanceFactory" -> rec.governance_type

HolderOf(rec) == IF factory = "NFTFactory" THEN rec.owner ELSE rec.admin

\* the sum of n(k) over the kinds k of the set
RECURSIVE SumOver(_, _)
SumOver(kinds, n) ==
    IF kinds = {} THEN 0
    ELSE LET k == CHOOSE x \in kinds : TRUE
         IN  n[k] + SumOver(kinds \ {k}, n)

\* the query outcome q is a successful read of storage st that returns list
ReadsAs(q, st, list) ==
    q = [ st |-> st, err |-> "ok", events |-> << >>, ret |-> list ]

\* C33: in TokenFactory, NFTFactory and GovernanceFactory the filtered
\* queries are projections of the registry: get_*_by_type(k) returns exactly
\* the records of get_deployed_*() whose kind is k, and get_tokens_by_admin,
\* get_nfts_by_owner and get_governance_by_admin(a) exactly those whose
\* recorded admin (owner) is a, each in registry order; every record is in the
\* by-type result of exactly one kind, so that the lengths of the by-type
\* results sum to the counter; and every query succeeds, writes nothing and
\* publishes nothing.
C33_FilteredQueries ==
    factory \in {"TokenFactory", "NFTFactory", "GovernanceFactory"} =>
        LET all == get_deployed(Storage)
            OfKind(k)   == LET Test(rec) == KindOf(rec) = k   IN SelectSeq(all, Test)
            HeldBy(a)   == LET Test(rec) == HolderOf(rec) = a IN SelectSeq(all, Test)
            lengths     == [k \in Kinds |-> Len(get_by_type(Storage, k).ret)]
        IN  /\ \A k \in Kinds : ReadsAs(get_by_type(Storage, k), Storage, OfKind(k))
            /\ \A a \in Address : ReadsAs(get_by_holder(Storage, a), Storage, HeldBy(a))
            /\ \A i \in 1..Len(all) :
                  Cardinality({ k \in Kinds :
                      \E j \in 1..lengths[k] : get_by_type(Storage, k).ret[j] = all[i] }) = 1
            /\ U32(SumOver(Kinds, lengths)) = get_count(Storage)

\* a TokenFactory that has deployed Capped twice, for admin B: the query for
\* Capped and the query for B return the two records in the order of their
\* deployment, the query for A returns none
C33_Witness ==
    /\ factory = "TokenFactory"
    /\ Len(registry) = 2
    /\ registry[1] # registry[2]
    /\ TokenFactory_get_tokens_by_type(Storage, "Capped").ret = registry
    /\ TokenFactory_get_tokens_by_admin(Storage, "B").ret = registry
    /\ TokenFactory_get_tokens_by_admin(Storage, "A").ret = << >>

\* the hashes of the installed wasms and one hash under which none is installed
AnyHash == 1..(MaxWasm + 1)

\* set_<kind>_wasm(a, h) of the factory, authorized by a
SetWasm(st, k, a, h) ==
    CASE factory = "TokenFactory"      -> TokenFactory_set_wasm(st, k, a, TRUE, h)
      [] factory = "NFTFactory"        -> NFTFactory_set_wasm(st, k, a, TRUE, h)
      [] factory = "GovernanceFactory" -> GovernanceFactory_set_wasm(st, k, a, TRUE, h)

\* the template registered for kind k
WasmFor(st, k) ==
    CASE factory = "TokenFactory"      -> TokenFactory_get_wasm_for_type(st, k)
      [] factory = "NFTFactory"        -> NFTFactory_get_wasm_for_type(st, k)
      [] factory = "GovernanceFactory" -> GovernanceFactory_get_wasm_for_type(st, k)

\* a valid config of kind k
ValidConfig(k, s) ==
    CASE factory = "TokenFactory"      -> TokenBase(k, s)
      [] factory = "NFTFactory"        -> NFTBase(k, s)
      [] factory = "GovernanceFactory" -> GovernanceBase(k, s)

\* C34: in TokenFactory, NFTFactory and GovernanceFactory, set_<kind>_wasm(h)
\* by the admin succeeds, whether or not a template was registered for the
\* kind, and changes the storage in the template of that kind only, which
\* becomes h (the templates of the other kinds, admin, pending_admin, paused,
\* registry and counter are unchanged); a second call replaces h in turn; no
\* other call changes any template; and a later deployment of that kind
\* instantiates h: on an unpaused factory, with a valid config and an unused
\* salt, it succeeds if a wasm is installed under h and fails in the host if
\* none is, whatever template the kind had before.
C34_SetWasm ==
    factory \in {"TokenFactory", "NFTFactory", "GovernanceFactory"} =>
        /\ \A k \in Kinds, h \in AnyHash :
              LET r == SetWasm(Storage, k, unwrap(admin), h)
              IN  /\ r.err = "ok"
                  /\ r.st = [Storage EXCEPT !.wasm[k] = Some(h)]
                  /\ WasmFor(r.st, k) = Some(h)
                  /\ \A j \in Kinds \ {k} : WasmFor(r.st, j) = WasmFor(Storage, j)
                  /\ \A h2 \in AnyHash :
                        WasmFor(SetWasm(r.st, k, unwrap(admin), h2).st, k) = Some(h2)
                  /\ ~paused =>
                        \A s \in Salt \ instances, d \in Address :
                           LET q == DeployWith(r.st, ledger, d, ValidConfig(k, s), TRUE)
                           IN  IF h \in WasmHash
                               THEN q.err = "ok" /\ Len(q.st.registry) = Len(registry) + 1
                               ELSE q = [ st |-> r.st, err |-> "HostError",
                                          events |-> << >>, ret |-> None ]
        /\ \A r \in EveryCall(Storage, ledger) :
              r.st.wasm # wasm =>
                  \E k \in Kinds, h \in WasmHash : r = SetWasm(Storage, k, unwrap(admin), h)

\* an NFTFactory where only the Royalties template is registered and a
\* Royalties collection has been deployed with it; registering another hash
\* for Royalties changes what the next deployment instantiates
C34_Witness ==
    /\ factory = "NFTFactory"
    /\ ~paused
    /\ is_some(wasm["Royalties"])
    /\ \A k \in NFTType \ {"Royalties"} : is_none(wasm[k])
    /\ Len(registry) = 1
    /\ registry[1].nft_type = "Royalties"
    /\ Salt \ instances # {}
    /\ last = "ok"

\* the failure of a call that found the storage st and left it as it was
RejectedFrom(st, err) == [ st |-> st, err |-> err, events |-> << >>, ret |-> None ]

\* the first check of deploy_<t>_factory(d, _, s) that fails on the storage
\* st, in the order authorization, NotAdmin, ContractPaused, Reentrancy,
\* RateLimitExceeded, DuplicateSalt, FactoryAlreadyDeployed; "none" if all pass
FirstFailure(st, seq, t, d, auth, s) ==
    IF ~auth THEN "AuthError"
    ELSE IF st.admin # Some(d) THEN "NotAdmin"
    ELSE IF st.paused THEN "ContractPaused"
    ELSE IF st.deploying THEN "Reentrancy"
    ELSE IF seq \in DOMAIN st.deployments_in_block
            /\ ~U32_lt(st.deployments_in_block[seq], U32(RateLimit)) THEN "RateLimitExceeded"
    ELSE IF s \in st.used_salts THEN "DuplicateSalt"
    ELSE IF st.slots[t] # None THEN "FactoryAlreadyDeployed"
    ELSE "none"

\* the storage st of a ledger in which RateLimit factories have been deployed
\* (a count that no run of the MasterFactory reaches, with its three types)
AtRateLimit(st, seq) ==
    [st EXCEPT !.deployments_in_block =
        [b \in (DOMAIN @) \cup {seq} |-> IF b = seq THEN U32(RateLimit) ELSE @[b]]]

\* C35: on the MasterFactory a deploy_*_factory call reports the first check
\* that fails in the order NotAdmin, ContractPaused, Reentrancy,
\* RateLimitExceeded, DuplicateSalt, FactoryAlreadyDeployed (after the
\* deployer's authorization), and writes nothing; it instantiates only when
\* all pass.  This holds on the storage between calls, on the storage inside
\* an outer deploy (Deploying set) and on either with the ledger's rate count
\* at the limit.  So a deployer who is not the admin gets NotAdmin even when
\* the factory is paused, and the admin re-deploying a deployed type on an
\* unpaused factory gets DuplicateSalt when the salt was used before and
\* FactoryAlreadyDeployed when it is fresh.
C35_MasterCheckOrder ==
    factory = "MasterFactory" =>
        /\ \A st \in { Storage, InsideDeploy(Storage), AtRateLimit(Storage, ledger),
                       AtRateLimit(InsideDeploy(Storage), ledger) } :
              \A t \in FactoryType, c \in Address \X BOOLEAN, h \in WasmHash, s \in Salt,
                 ok \in BOOLEAN :
                 LET r == MasterFactory_deploy_factory(t, st, ledger, c[1], c[2], h, s, ok)
                     e == FirstFailure(st, ledger, t, c[1], c[2], s)
                 IN  IF e = "none" THEN r.err \in {"ok", "HostError"}
                     ELSE r = RejectedFrom(st, e)
        /\ \A t \in FactoryType, d \in Address, h \in WasmHash, s \in Salt, ok \in BOOLEAN :
              LET r == MasterFactory_deploy_factory(t, Storage, ledger, d, TRUE, h, s, ok)
              IN  /\ (paused /\ Some(d) # admin) => r = Rejected("NotAdmin")
                  /\ (~paused /\ Some(d) = admin /\ is_some(slots[t])) =>
                        r = Rejected(IF s \in used_salts THEN "DuplicateSalt"
                                     ELSE "FactoryAlreadyDeployed")

\* an unpaused MasterFactory that has deployed one factory and has just
\* refused a call with DuplicateSalt; an unused salt is left, with which a
\* deployment of the deployed type fails with FactoryAlreadyDeployed, and a
\* deployer who is not the admin fails with NotAdmin
C35_Witness ==
    /\ factory = "MasterFactory"
    /\ ~paused
    /\ Len(registry) = 1
    /\ last = "DuplicateSalt"
    /\ \E s \in Salt \ used_salts, t \in FactoryType, h \in WasmHash :
          /\ MasterFactory_deploy_factory(t, Storage, ledger, unwrap(admin), TRUE, h, s, TRUE)
                = Rejected("FactoryAlreadyDeployed")
          /\ \E d \in Address :
                MasterFactory_deploy_factory(t, Storage, ledger, d, TRUE, h, s, TRUE)
                   = Rejected("NotAdmin")

\* C36: in every factory the admin is set in every state, so that get_admin
\* returns it and never fails with AdminNotSet; a call changes the stored
\* admin only if it is a successful accept_admin_transfer, and the new admin
\* is then the pending_admin of the storage the call found; no other call
\* (initiate, cancel, pause, unpause, upgrade, set_*_wasm, a deployment) and no
\* failed call changes it, and no step changes it otherwise.
C36_AdminChange ==
    /\ [](/\ is_some(admin)
          /\ get_admin(Storage) = [ st |-> Storage, err |-> "ok", events |-> << >>,
                                    ret |-> admin ]
          /\ \A r \in EveryCall(Storage, ledger) :
                r.st.admin # admin =>
                    /\ r.err = "ok"
                    /\ r.st.admin = pending_admin
                    /\ \E n \in Address : pending_admin = Some(n) /\ r = Accept(Storage, n))
    /\ [][admin' # admin =>
             /\ admin' = pending_admin
             /\ \E n \in Address :
                   Accept(Storage, n).err = "ok" /\ Accept(Storage, n).st = Storage']_vars

\* a GovernanceFactory whose admin is C after an accepted transfer, with no
\* transfer pending, after two deployments
C36_Witness ==
    /\ factory = "GovernanceFactory"
    /\ admin = Some("C")
    /\ is_none(pending_admin)
    /\ Len(registry) = 2
    /\ last = "ok"

\* C37: in every factory, while a transfer to B is pending, the admin A's
\* initiate_admin_transfer(A, C) succeeds and changes the storage in
\* pending_admin only, which becomes C; after it accept_admin_transfer by any
\* address other than C, the earlier nominee B included, fails with
\* NotPendingAdmin and changes nothing, and accept_admin_transfer(C) succeeds
\* and makes C the admin with no transfer pending.
C37_ReInitiate ==
    is_some(pending_admin) =>
        \A C \in Address :
           LET A  == unwrap(admin)
               B  == unwrap(pending_admin)
               r  == Initiate(Storage, A, C)
           IN  /\ r.err = "ok"
               /\ r.st = [Storage EXCEPT !.pending_admin = Some(C)]
               /\ \A n \in Address \ {C} :
                     Accept(r.st, n) = RejectedFrom(r.st, "NotPendingAdmin")
               /\ B # C => Accept(r.st, B).err = "NotPendingAdmin"
               /\ Accept(r.st, C).err = "ok"
               /\ Accept(r.st, C).st = [Storage EXCEPT !.admin = Some(C),
                                                       !.pending_admin = None]

\* an NFTFactory with admin A and a transfer pending to C, where an accept has
\* just been refused with NotPendingAdmin; a transfer to B can replace it
C37_Witness ==
    /\ factory = "NFTFactory"
    /\ admin = Some("A")
    /\ pending_admin = Some("C")
    /\ last = "NotPendingAdmin"
    /\ Initiate(Storage, "A", "B").st.pending_admin = Some("B")

\* on the storage st no deployment is refused for the pause, and a
\* deployment that passes the other checks succeeds: on the MasterFactory the
\* admin's, of a type not yet deployed with an unused salt; on the other
\* factories anyone's, of a kind with a template, with a valid config and an
\* unused salt
DeploymentsPossible(st) ==
    /\ \A d \in Address : \A r \in DeployAttempts(st, ledger, d, TRUE) :
          r.err # "ContractPaused"
    /\ factory = "MasterFactory" =>
          \A t \in FactoryType, h \in WasmHash, s \in Salt \ st.used_salts :
             is_none(st.slots[t]) =>
                MasterFactory_deploy_factory(t, st, ledger, unwrap(st.admin), TRUE, h, s, TRUE).err
                   = "ok"
    /\ factory # "MasterFactory" =>
          \A k \in Kinds, s \in Salt \ st.instances, d \in Address :
             is_some(WasmFor(st, k)) =>
                DeployWith(st, ledger, d, ValidConfig(k, s), TRUE).err = "ok"

\* the stored admin of st unpauses in one call, which changes nothing but
\* paused, and deployments are possible on the storage it leaves
AdminCanUnpause(st) ==
    LET r == Unpause(st, unwrap(st.admin))
    IN  /\ r.err = "ok"
        /\ r.st = [st EXCEPT !.paused = FALSE]
        /\ DeploymentsPossible(r.st)

\* C38: in every factory the pause flag gates deployments only.  While paused,
\* set_*_wasm, initiate_admin_transfer, cancel_admin_transfer and unpause by
\* the admin, accept_admin_transfer by the pending admin and upgrade (to an
\* installed wasm) with the admin's authorization succeed.  From every
\* reachable state, and from the state an upgrade or an accepted transfer
\* leaves, the stored admin unpauses in one call and deployments are possible
\* again: none is refused with ContractPaused.
C38_PauseGatesDeploymentsOnly ==
    /\ paused =>
          LET a == unwrap(admin)
          IN  /\ factory # "MasterFactory" =>
                    \A k \in Kinds, h \in WasmHash : SetWasm(Storage, k, a, h).err = "ok"
              /\ \A n \in Address : Initiate(Storage, a, n).err = "ok"
              /\ Cancel(Storage, a).err = "ok"
              /\ is_some(pending_admin) => Accept(Storage, unwrap(pending_admin)).err = "ok"
              /\ \A h \in WasmHash : Upgrade(Storage, TRUE, h, TRUE).err = "ok"
              /\ Unpause(Storage, a).err = "ok"
              /\ \A d \in Address : \A r \in DeployAttempts(Storage, ledger, d, TRUE) :
                    r.err \in {"ContractPaused", "NotAdmin"}
    /\ AdminCanUnpause(Storage)
    /\ \A h \in WasmHash : AdminCanUnpause(Upgrade(Storage, TRUE, h, TRUE).st)
    /\ is_some(pending_admin) =>
          /\ AdminCanUnpause(Accept(Storage, unwrap(pending_admin)).st)
          /\ paused => Unpause(Accept(Storage, unwrap(pending_admin)).st, unwrap(admin)).err
                          = (IF pending_admin = admin THEN "ok" ELSE "NotAdmin")

\* a paused TokenFactory with a template registered, an unused salt, and a
\* transfer pending to another address: the pending admin can accept, and then
\* it, not the former admin, unpauses
C38_Witness ==
    /\ factory = "TokenFactory"
    /\ paused
    /\ is_some(pending_admin)
    /\ pending_admin # admin
    /\ \E k \in TokenType : is_some(wasm[k])
    /\ Salt \ instances # {}
    /\ last = "ContractPaused"

\* get_<t>_factory of the MasterFactory
MasterFactory_get_factory(t, st) ==
    CASE t = "Token"      -> MasterFactory_get_token_factory(st)
      [] t = "NFT"        -> MasterFactory_get_nft_factory(st)
      [] t = "Governance" -> MasterFactory_get_governance_factory(st)

\* C39: in every reachable state of the MasterFactory, get_token_factory,
\* get_nft_factory and get_governance_factory return Some(a) exactly when
\* get_deployed_factories holds an entry of that type, which is then the only
\* entry of the type and has address a; and get_deployed_factories has as many
\* entries as there are salts marked used, one at the address derived from
\* each.
C39_MasterBookkeeping ==
    factory = "MasterFactory" =>
        LET list == MasterFactory_get_deployed_factories(Storage)
            OfType(t) == { i \in 1..Len(list) : list[i].factory_type = t }
        IN  /\ \A t \in FactoryType :
                  /\ Cardinality(OfType(t)) <= 1
                  /\ is_some(MasterFactory_get_factory(t, Storage)) <=> OfType(t) # {}
                  /\ \A i \in OfType(t) :
                        MasterFactory_get_factory(t, Storage) = Some(list[i].address)
            /\ Len(list) = Cardinality(used_salts)
            /\ { list[i].address : i \in 1..Len(list) }
                  = { contract_address("MasterFactory", s) : s \in used_salts }

\* a MasterFactory that has deployed two factories of different types with
\* two salts; the third slot is empty and has no entry
C39_Witness ==
    /\ factory = "MasterFactory"
    /\ Len(registry) = 2
    /\ Cardinality(used_salts) = 2
    /\ Cardinality({ t \in FactoryType : is_some(slots[t]) }) = 2
    /\ is_none(MasterFactory_get_governance_factory(Storage))
    /\ is_some(MasterFactory_get_nft_factory(Storage))

(***************************************************************************)
(* TokenFactory, NFTFactory or GovernanceFactory with constructors that    *)
(* call back into the factory: none of the three keeps a guard of its own, *)
(* so whether the nested call runs is the host's decision.                 *)
(***************************************************************************)

\* deploy_token, deploy_nft or deploy_governance of the factory at hand, with
\* the outcome of what its constructor ran
Deploy_reentered(st, seq, d, auth, c, ok, ran) ==
    CASE factory = "TokenFactory" ->
            TokenFactory_deploy_token_reentered(st, seq, d, auth, c, ok, ran)
      [] factory = "NFTFactory" ->
            NFTFactory_deploy_nft_reentered(st, seq, d, auth, c, ok, ran)
      [] factory = "GovernanceFactory" ->
            GovernanceFactory_deploy_governance_reentered(st, seq, d, auth, c, ok, ran)

\* The call of the factory's deploy entry point, authorized, with config c2,
\* made by the constructor of the contract that an outer call is deploying
\* at `salt`; the contract exists by the time its constructor runs.
\* admitted: the host lets the re-entrant call reach the contract; otherwise
\* the host fails the call before the entry point runs.
ConstructorCalls(st, seq, admitted, salt, d2, c2) ==
    LET mid == [st EXCEPT !.instances = @ \cup {salt}]
    IN  IF admitted THEN DeployWith(mid, seq, d2, c2, TRUE)
        ELSE Panic(mid, mid, "HostError")

\* The outer call: deploy by d with config c, whose constructor makes the
\* call above.  caught: the constructor goes on when its call failed;
\* otherwise it fails with it, and so does deploy_v2.
NestedDeployment(st, seq, admitted, caught, d, auth, c, d2, c2) ==
    LET inner == ConstructorCalls(st, seq, admitted, c.salt, d2, c2)
    IN  Deploy_reentered(st, seq, d, auth, c, inner.err = "ok" \/ caught, inner)

Deploy_nested ==
    /\ factory \in {"TokenFactory", "NFTFactory", "GovernanceFactory"}
    /\ \E d \in Deployers, c \in DeployConfigs, c2 \in DeployConfigs,
          admitted \in BOOLEAN, caught \in BOOLEAN :
          Apply("deploy", NestedDeployment(Storage, ledger, admitted, caught,
                                           d[1], d[2], c, "C", c2))

InitReentrant == InitToken \/ InitNFT \/ InitGovernance

\* the entry points that bear on a deployment, and the nested deployment
NextReentrant ==
    \/ Token_set_allowlist_wasm
    \/ Token_set_blocklist_wasm
    \/ Token_set_capped_wasm
    \/ Token_set_pausable_wasm
    \/ Token_set_vault_wasm
    \/ Token_deploy_token
    \/ Token_pause
    \/ Token_unpause
    \/ NFT_set_enumerable_wasm
    \/ NFT_set_royalties_wasm
    \/ NFT_set_access_control_wasm
    \/ NFT_deploy_nft
    \/ NFT_pause
    \/ NFT_unpause
    \/ Governance_set_merkle_voting_wasm
    \/ Governance_set_multisig_wasm
    \/ Governance_deploy_governance
    \/ Governance_pause
    \/ Governance_unpause
    \/ Deploy_nested

SpecReentrant == InitReentrant /\ [][NextReentrant]_vars

\* C40: TokenFactory, NFTFactory and GovernanceFactory have no reentrancy
\* guard (a deploy call gives the same result whether or not another deploy
\* of the factory is under way), and the counter equals the registry length
\* in every reachable state; when the constructor run by a deploy call calls
\* the factory's deploy entry point again with a different salt and that
\* nested call succeeds, a successful outer call leaves the registry with
\* both records appended (the nested one first), both contracts created, both
\* events published, and the counter two higher and still equal to the
\* registry length.
C40_NestedDeploy ==
    /\ count = U32(Len(registry))
    /\ \A d \in Address, c \in DeployConfigs, c2 \in DeployConfigs, admitted \in BOOLEAN :
          LET inner == ConstructorCalls(Storage, ledger, admitted, c.salt, d, c2)
              r == NestedDeployment(Storage, ledger, admitted, FALSE, d, TRUE, c, d, c2)
              n == Len(registry)
          IN  /\ DeployWith(InsideDeploy(Storage), ledger, d, c, TRUE).err
                    = DeployWith(Storage, ledger, d, c, TRUE).err
              /\ (c2.salt # c.salt /\ inner.err = "ok" /\ r.err = "ok") =>
                    /\ Len(r.st.registry) = n + 2
                    /\ SubSeq(r.st.registry, 1, n) = registry
                    /\ r.st.registry[n + 1].address = unwrap(inner.ret)
                    /\ r.st.registry[n + 2].address = unwrap(r.ret)
                    /\ unwrap(inner.ret) # unwrap(r.ret)
                    /\ r.st.count = U32(n + 2)
                    /\ r.st.instances = instances \cup {c.salt, c2.salt}
                    /\ Len(r.events) = 2
                    /\ [r.st EXCEPT !.registry = registry, !.count = count,
                                    !.instances = instances] = Storage

\* a factory whose two deployments were made by one outer call: its storage
\* is what a deployment with salt 2 leaves whose constructor deployed with
\* salt 1, starting with nothing deployed
C40_Witness ==
    /\ factory \in {"TokenFactory", "NFTFactory", "GovernanceFactory"}
    /\ last = "ok"
    /\ Len(registry) = 2
    /\ count = U32(2)
    /\ registry[1].address = contract_address(factory, 1)
    /\ registry[2].address = contract_address(factory, 2)
    /\ registry[1].timestamp = registry[2].timestamp
    /\ \E c \in DeployConfigs, c2 \in DeployConfigs :
          LET before == [Storage EXCEPT !.registry = << >>, !.count = U32(0),
                                        !.instances = {}]
              inner == ConstructorCalls(before, registry[1].timestamp, TRUE, c.salt, "C", c2)
              r == NestedDeployment(before, registry[1].timestamp, TRUE, FALSE,
                                    "C", TRUE, c, "C", c2)
          IN  inner.err = "ok" /\ r.err = "ok" /\ r.st = Storage

=============================================================================
